---- MODULE Spec2Model ----
(***************************************************************************)
(* Model of the vendored std/http Server (server.ts, compiled to            *)
(* db4a01bf....js): one Server object, the serve() calls made on it, the    *)
(* accept loop of each listener, the request loop of each accepted          *)
(* connection and the dispatch (#respond) of each request.                  *)
(*                                                                         *)
(* JavaScript runs the tasks cooperatively: an action of this model is the  *)
(* code that runs between two awaits of one task.  The runtime operations   *)
(* (accept, serveHttp, nextRequest, handler, onError, respondWith) are the  *)
(* environment: their outcomes are chosen nondeterministically.             *)
(***************************************************************************)
EXTENDS Naturals, Integers, FiniteSets, Sequences

\* ---- bounds of the model ------------------------------------------------
\* The serve calls made on the server and the connections the listeners hand
\* out, each numbered in the order of its arrival.
ListenerIds == {1, 2}
ConnIds == {1, 2}
MaxReq == 2            \* requests one connection yields at most
MaxCloseCalls == 2     \* calls of close()
\* The environment of each specification: which serve calls are made, which
\* connections arrive, how many requests arrive and how many transient accept
\* errors the open listeners raise.
ListenReqs == 1        \* Spec: requests, over all connections
DispatchReqs == 2      \* SpecDispatch: requests, over all connections
BackoffReqs == 1       \* SpecBackoff: requests
BackoffErrs == 10      \* SpecBackoff: transient accept errors of open listeners
LiveReqs == 1          \* SpecLive: requests
AbortReqs == 1         \* SpecAbort: requests, over all connections
TopReqs == 1           \* SpecTop: requests
MaxDelay == 2          \* SpecDeadline: the delay of deadline
MaxClock == 3          \* the clock stops there
MaxWait == 2           \* SpecDebounce: the wait of debounce
MaxCalls == 3          \* SpecDebounce: calls of the debounced function
MaxSrcLen == 2         \* SpecTee: values of the source
MaxBranches == 2       \* SpecTee: the n of tee
MaxMuxLen == 2         \* SpecMux: values of one source
MaxAbLen == 2          \* SpecAbortable: values the source of abortable yields

\* ---- program constants ---------------------------------------------------
INITIAL_ACCEPT_BACKOFF_DELAY == 5
MAX_ACCEPT_BACKOFF_DELAY == 1000
\* `let acceptBackoffDelay;` : the unset (undefined, falsy) backoff
Undefined == 0

ReqIds == 1..MaxReq

\* The response of the default onError of the constructor.
DefaultOnErrorResponse == [status |-> 500, body |-> "Internal Server Error"]
\* The response a handler returns, and the one a configured onError returns.
HandlerResponse == [status |-> 200, body |-> "ok"]
CustomOnErrorResponse == [status |-> 503, body |-> "custom fallback"]
NoResponse == [status |-> 0, body |-> ""]

\* No top-level function is in use: the caller constructs the Server itself.
NoOptions ==
  [signal |-> "absent", onListen |-> "absent", hasPort |-> FALSE,
   keyFile |-> TRUE, certFile |-> TRUE]
NoTop ==
  [pc |-> "none", fn |-> "none", server |-> FALSE, log |-> <<>>,
   onListenArgs |-> <<>>]

\* A dispatch that has not started.
NoDispatch ==
  [pc |-> "none", onErrorCalls |-> 0, onErrorArg |-> <<0, 0>>,
   response |-> NoResponse]

VARIABLES
  closed,              \* #closed
  listeners,           \* #listeners
  httpConnections,     \* #httpConnections
  onErrorKind,         \* "default": serverInit.onError absent; "custom": given
  lpc,                 \* position of serve call l
  acceptConn,          \* the connection a settled accept() yielded (else 0)
  acceptBackoffDelay,  \* the local of #accept
  consecErrs,          \* transient accept errors since the last successful accept
  lOpen,               \* the listener resource is open
  lCloseCalls,         \* invocations of listener.close()
  cpc,                 \* position of the request loop of connection c
  cOwner,              \* the listener whose accept loop accepted c
  cOpen,               \* the HTTP connection resource is open
  cCloseCalls,         \* invocations of httpConn.close()
  cTracked,            \* times c was added to #httpConnections
  nreq,                \* requests pulled from c
  disp,                \* the dispatches (#respond calls)
  closeCalls,          \* calls of close()
  closeErrs,           \* calls of close() that threw 'Server closed'
  atCloseL,            \* listeners tracked when close() succeeded
  atCloseC,            \* connections tracked when close() succeeded
  signal,              \* options.signal: "none", "armed" (listener added),
                       \* "fired", "aborted" (listener added after the event)
  options,             \* the options given to the top-level function
  top,                 \* the call of a top-level function
  accepted,            \* connections handed out by accept so far
  transients,          \* transient accept errors open listeners raised so far
  budget               \* what the environment does at most (fixed by Init)

\* ---- the utilities of std/async: state -----------------------------------
\* A promise: pending, or settled with a value or with an error.
Pending == [state |-> "pending", value |-> "none"]
Fulfilled(v) == [state |-> "fulfilled", value |-> v]
Rejected(e) == [state |-> "rejected", value |-> e]

VARIABLES
  dl,                  \* one call of deadline: p, delay, d, t, the race, the result
  db,                  \* one debounced function: timeout, flush, its timers
  tee,                 \* one call of tee: the Queue and the branches
  mux,                 \* one MuxAsyncIterator, its sources and its consumer
  ab                   \* one call of abortable: the signal, the waiter, the result

asyncVars == <<dl, db, tee, mux, ab>>

\* A utility that is not in use.
Idle == [pc |-> "idle"]

\* No utility is in use.
AsyncIdle ==
  /\ dl = Idle
  /\ db = Idle
  /\ tee = Idle
  /\ mux = Idle
  /\ ab = Idle

serverVars == <<closed, listeners, httpConnections, onErrorKind>>
listenerVars == <<lpc, acceptConn, acceptBackoffDelay,
                  consecErrs, lOpen, lCloseCalls>>
connVars == <<cpc, cOwner, cOpen, cCloseCalls, cTracked, nreq>>
callVars == <<closeCalls, closeErrs, atCloseL, atCloseC, signal, options, top>>
\* The environment of the server, and the utilities, which no step of the
\* server touches.
envVars == <<accepted, transients, budget, asyncVars>>
vars == <<serverVars, listenerVars, connVars, disp, callVars, envVars>>

\* ---- construction --------------------------------------------------------
InitServer ==
  /\ closed = FALSE
  /\ listeners = {}
  /\ httpConnections = {}
  /\ lpc = [l \in ListenerIds |-> "new"]
  /\ acceptConn = [l \in ListenerIds |-> 0]
  /\ acceptBackoffDelay = [l \in ListenerIds |-> Undefined]
  /\ consecErrs = [l \in ListenerIds |-> 0]
  /\ lOpen = [l \in ListenerIds |-> FALSE]
  /\ lCloseCalls = [l \in ListenerIds |-> 0]
  /\ cpc = [c \in ConnIds |-> "new"]
  /\ cOwner = [c \in ConnIds |-> 0]
  /\ cOpen = [c \in ConnIds |-> FALSE]
  /\ cCloseCalls = [c \in ConnIds |-> 0]
  /\ cTracked = [c \in ConnIds |-> 0]
  /\ nreq = [c \in ConnIds |-> 0]
  /\ disp = [c \in ConnIds |-> [n \in ReqIds |-> NoDispatch]]
  /\ closeCalls = 0
  /\ closeErrs = 0
  /\ atCloseL = {}
  /\ atCloseC = {}
  /\ accepted = 0
  /\ transients = 0

\* Spec: a server with the default onError; two serve calls, two connections,
\* few requests; accept fails transiently on closed listeners only.
Init ==
  /\ InitServer
  /\ onErrorKind = "default"
  /\ signal = "none"
  /\ options = NoOptions
  /\ top = NoTop
  /\ AsyncIdle
  /\ budget = [listeners |-> ListenerIds, conns |-> ConnIds,
               reqs |-> ListenReqs, transient |-> 0]

\* SpecDispatch: a server with or without a configured onError; one serve
\* call, two connections, several requests.
InitDispatch ==
  /\ InitServer
  /\ onErrorKind \in {"default", "custom"}
  /\ signal = "none"
  /\ options = NoOptions
  /\ top = NoTop
  /\ AsyncIdle
  /\ budget = [listeners |-> {1}, conns |-> ConnIds,
               reqs |-> DispatchReqs, transient |-> 0]

\* SpecBackoff: one accept loop that meets many transient accept errors, one
\* connection.
InitBackoff ==
  /\ InitServer
  /\ onErrorKind = "default"
  /\ signal = "none"
  /\ options = NoOptions
  /\ top = NoTop
  /\ AsyncIdle
  /\ budget = [listeners |-> {1}, conns |-> {1},
               reqs |-> BackoffReqs, transient |-> BackoffErrs]

\* SpecLive: two serve calls, one connection; the runtime keeps the tasks
\* running (Fairness).
InitLive ==
  /\ InitServer
  /\ onErrorKind = "default"
  /\ signal = "none"
  /\ options = NoOptions
  /\ top = NoTop
  /\ AsyncIdle
  /\ budget = [listeners |-> ListenerIds, conns |-> {1},
               reqs |-> LiveReqs, transient |-> 0]

\* SpecAbort: the server of one call of serve, serveTls, serveListener,
\* listenAndServe or listenAndServeTls with options.signal given, after
\* `new Server(...)` and `signal.addEventListener("abort", ..., {once: true})`.
\* Nothing but the abort listener holds the server, so close() has no other
\* caller.
InitAbort ==
  /\ InitServer
  /\ onErrorKind \in {"default", "custom"}
  /\ signal = "armed"
  /\ options = NoOptions
  /\ top = NoTop
  /\ AsyncIdle
  /\ budget = [listeners |-> {1}, conns |-> ConnIds,
               reqs |-> AbortReqs, transient |-> 0]

\* SpecTop: one call of a top-level function, with every combination of the
\* options; the function constructs the server, so nothing else calls close().
InitTop ==
  /\ InitServer
  /\ onErrorKind = "default"
  /\ signal = "none"
  /\ options \in [signal : {"absent", "fresh", "aborted"},
                  onListen : {"absent", "function", "undefined"},
                  hasPort : BOOLEAN, keyFile : BOOLEAN, certFile : BOOLEAN]
  /\ top = [pc |-> "new", fn |-> "none", server |-> FALSE, log |-> <<>>,
            onListenArgs |-> <<>>]
  /\ budget = [listeners |-> {1}, conns |-> {1},
               reqs |-> TopReqs, transient |-> 0]
  /\ AsyncIdle

\* ---- helpers -------------------------------------------------------------
\* A faulty variant: the backoff doubles without the cap.
NextBackoffDelay_NoCap(d) ==
  IF d = Undefined THEN INITIAL_ACCEPT_BACKOFF_DELAY ELSE d * 2

\* The backoff update of the catch block of #accept.
NextBackoffDelay(d) ==
  LET d1 == IF d = Undefined THEN INITIAL_ACCEPT_BACKOFF_DELAY ELSE d * 2
  IN IF d1 >= MAX_ACCEPT_BACKOFF_DELAY THEN MAX_ACCEPT_BACKOFF_DELAY ELSE d1

\* `while (!this.#closed)` of #accept, evaluated after an iteration.
AcceptLoopPc == IF closed THEN "exitOk" ELSE "accept"

\* serve calls are numbered in the order they are made
IsNextCall(l) ==
  /\ l \in budget.listeners
  /\ lpc[l] = "new"
  /\ IF l = 1 THEN TRUE ELSE lpc[l - 1] \notin {"new", "created"}


\* ---- serve(), listenAndServe(), listenAndServeTls() ----------------------
\* The caller creates a listener itself (Deno.listen), to pass it to serve().
CreateListener(l) ==
  /\ IsNextCall(l)
  /\ lpc' = [lpc EXCEPT ![l] = "created"]
  /\ lOpen' = [lOpen EXCEPT ![l] = TRUE]
  /\ UNCHANGED <<serverVars, acceptConn, acceptBackoffDelay,
                 consecErrs, lCloseCalls, connVars, disp, callVars, envVars>>

\* A faulty variant: serve() without its closed check.
ServeEnter_NoClosedCheck(l) ==
  /\ listeners' = listeners \cup {l}
  /\ lpc' = [lpc EXCEPT ![l] = "accept"]

\* serve(listener) up to its first await: the closed check, #trackListener and
\* the first listener.accept() of #accept.
ServeEnter(l) ==
  IF closed
  THEN /\ lpc' = [lpc EXCEPT ![l] = "rejectedClosed"]
       /\ UNCHANGED listeners
  ELSE /\ listeners' = listeners \cup {l}
       /\ lpc' = [lpc EXCEPT ![l] = AcceptLoopPc]

Serve(l) ==
  /\ lpc[l] = "created"
  /\ ServeEnter(l)
  /\ UNCHANGED <<closed, httpConnections, onErrorKind, acceptConn,
                 acceptBackoffDelay, consecErrs, lOpen, lCloseCalls, connVars,
                 disp, callVars, envVars>>

\* listenAndServe() (kind "tcp") and listenAndServeTls() (kind "tls"): the
\* closed check, Deno.listen / Deno.listenTls (which may throw), then serve().
ListenAndServeBody(l, kind, bindOk) ==
  /\ kind \in {"tcp", "tls"}
  /\ IF closed
     THEN /\ lpc' = [lpc EXCEPT ![l] = "rejectedClosed"]
          /\ UNCHANGED <<listeners, lOpen>>
     ELSE IF ~bindOk
     THEN /\ lpc' = [lpc EXCEPT ![l] = "rejectedBind"]
          /\ UNCHANGED <<listeners, lOpen>>
     ELSE /\ lOpen' = [lOpen EXCEPT ![l] = TRUE]
          /\ ServeEnter(l)

\* A call of the method on a server the caller constructed.
ListenAndServeKind(l, kind, bindOk) ==
  /\ IsNextCall(l)
  /\ ListenAndServeBody(l, kind, bindOk)
  /\ UNCHANGED <<closed, httpConnections, onErrorKind, acceptConn,
                 acceptBackoffDelay, consecErrs, lCloseCalls, connVars, disp,
                 callVars, envVars>>

ListenAndServe(l) == \E bindOk \in BOOLEAN : ListenAndServeKind(l, "tcp", bindOk)

ListenAndServeTls(l) == \E bindOk \in BOOLEAN : ListenAndServeKind(l, "tls", bindOk)

\* A faulty variant: serve() swallows the error of the accept loop.
ServeFinally_SwallowsError(l) ==
  /\ lpc[l] \in {"exitOk", "exitErr"}
  /\ listeners' = listeners \ {l}
  /\ lCloseCalls' = [lCloseCalls EXCEPT ![l] = @ + 1]
  /\ lOpen' = [lOpen EXCEPT ![l] = FALSE]
  /\ lpc' = [lpc EXCEPT ![l] = "returned"]
  /\ UNCHANGED <<closed, httpConnections, onErrorKind, acceptConn,
                 acceptBackoffDelay, consecErrs, connVars, disp, callVars,
                 envVars>>

\* A faulty variant: the finally of serve() closes the listener but keeps it tracked.
ServeFinally_KeepsTracked(l) ==
  /\ lpc[l] \in {"exitOk", "exitErr"}
  /\ UNCHANGED listeners
  /\ lCloseCalls' = [lCloseCalls EXCEPT ![l] = @ + 1]
  /\ lOpen' = [lOpen EXCEPT ![l] = FALSE]
  /\ lpc' = [lpc EXCEPT ![l] = IF lpc[l] = "exitOk" THEN "returned" ELSE "rejectedFatal"]
  /\ UNCHANGED <<closed, httpConnections, onErrorKind, acceptConn,
                 acceptBackoffDelay, consecErrs, connVars, disp, callVars,
                 envVars>>

\* A faulty variant: the finally of serve() also closes the connections of its listener.
ServeFinally_ClosesConnections(l) ==
  /\ lpc[l] \in {"exitOk", "exitErr"}
  /\ listeners' = listeners \ {l}
  /\ lCloseCalls' = [lCloseCalls EXCEPT ![l] = @ + 1]
  /\ lOpen' = [lOpen EXCEPT ![l] = FALSE]
  /\ lpc' = [lpc EXCEPT ![l] = IF lpc[l] = "exitOk" THEN "returned" ELSE "rejectedFatal"]
  /\ httpConnections' = {c \in httpConnections : cOwner[c] # l}
  /\ cOpen' = [c \in ConnIds |-> cOpen[c] /\ cOwner[c] # l]
  /\ UNCHANGED <<closed, onErrorKind, acceptConn, acceptBackoffDelay, consecErrs,
                 cpc, cOwner, cCloseCalls, cTracked, nreq, disp, callVars,
                 envVars>>

\* The `finally` of serve(): #untrackListener and listener.close(), after the
\* accept loop returned ("exitOk") or threw ("exitErr").
ServeFinally(l) ==
  /\ lpc[l] \in {"exitOk", "exitErr"}
  /\ listeners' = listeners \ {l}
  /\ lCloseCalls' = [lCloseCalls EXCEPT ![l] = @ + 1]
  /\ lOpen' = [lOpen EXCEPT ![l] = FALSE]
  /\ lpc' = [lpc EXCEPT ![l] = IF lpc[l] = "exitOk" THEN "returned" ELSE "rejectedFatal"]
  /\ UNCHANGED <<closed, httpConnections, onErrorKind, acceptConn,
                 acceptBackoffDelay, consecErrs, connVars, disp, callVars,
                 envVars>>

\* ---- close() -------------------------------------------------------------
\* A faulty variant: the connections are closed but #httpConnections is not cleared.
CloseBody_KeepsConnections ==
  /\ closed' = TRUE
  /\ lCloseCalls' = [l \in ListenerIds |->
                       IF l \in listeners THEN lCloseCalls[l] + 1
                       ELSE lCloseCalls[l]]
  /\ lOpen' = [l \in ListenerIds |-> lOpen[l] /\ l \notin listeners]
  /\ listeners' = {}
  /\ cCloseCalls' = [c \in ConnIds |->
                       IF c \in httpConnections THEN cCloseCalls[c] + 1
                       ELSE cCloseCalls[c]]
  /\ cOpen' = [c \in ConnIds |-> cOpen[c] /\ c \notin httpConnections]
  /\ UNCHANGED httpConnections

\* A faulty variant: the tracked sets are cleared without closing the connections.
CloseBody_SkipsConnClose ==
  /\ closed' = TRUE
  /\ lCloseCalls' = [l \in ListenerIds |->
                       IF l \in listeners THEN lCloseCalls[l] + 1
                       ELSE lCloseCalls[l]]
  /\ lOpen' = [l \in ListenerIds |-> lOpen[l] /\ l \notin listeners]
  /\ listeners' = {}
  /\ UNCHANGED <<cCloseCalls, cOpen>>
  /\ httpConnections' = {}

\* A faulty variant: close() untracks the listeners without closing them.
CloseBody_LeavesListenersOpen ==
  /\ closed' = TRUE
  /\ UNCHANGED <<lCloseCalls, lOpen>>
  /\ listeners' = {}
  /\ cCloseCalls' = [c \in ConnIds |->
                       IF c \in httpConnections THEN cCloseCalls[c] + 1
                       ELSE cCloseCalls[c]]
  /\ cOpen' = [c \in ConnIds |-> cOpen[c] /\ c \notin httpConnections]
  /\ httpConnections' = {}

\* The two loops of close(), each followed by clear().
CloseBody ==
  /\ closed' = TRUE
  /\ lCloseCalls' = [l \in ListenerIds |->
                       IF l \in listeners THEN lCloseCalls[l] + 1
                       ELSE lCloseCalls[l]]
  /\ lOpen' = [l \in ListenerIds |-> lOpen[l] /\ l \notin listeners]
  /\ listeners' = {}
  /\ cCloseCalls' = [c \in ConnIds |->
                       IF c \in httpConnections THEN cCloseCalls[c] + 1
                       ELSE cCloseCalls[c]]
  /\ cOpen' = [c \in ConnIds |-> cOpen[c] /\ c \notin httpConnections]
  /\ httpConnections' = {}

\* A faulty variant: close() without its closed check.
Close_NoClosedCheck ==
  /\ closeCalls < MaxCloseCalls
  /\ closeCalls' = closeCalls + 1
  /\ CloseBody
  /\ atCloseL' = IF closed THEN atCloseL ELSE listeners
  /\ atCloseC' = IF closed THEN atCloseC ELSE httpConnections
  /\ UNCHANGED <<closeErrs, signal, options, top>>
  /\ UNCHANGED <<onErrorKind, lpc, acceptConn,
                 acceptBackoffDelay, consecErrs, cpc, cOwner, cTracked, nreq,
                 disp, envVars>>

Close ==
  /\ closeCalls < MaxCloseCalls
  /\ closeCalls' = closeCalls + 1
  /\ IF closed
     THEN /\ closeErrs' = closeErrs + 1
          /\ UNCHANGED <<closed, listeners, httpConnections, lOpen, lCloseCalls,
                         cOpen, cCloseCalls, atCloseL, atCloseC>>
     ELSE /\ CloseBody
          /\ atCloseL' = listeners
          /\ atCloseC' = httpConnections
          /\ UNCHANGED closeErrs
  /\ UNCHANGED <<onErrorKind, lpc, acceptConn, acceptBackoffDelay, consecErrs,
                 cpc, cOwner, cTracked, nreq, disp, envVars, signal, options,
                 top>>

\* A faulty variant: the abort listener is added without {once: true} and runs
\* again.
Abort_NotOnce ==
  /\ signal \in {"armed", "fired"}
  /\ \E l \in budget.listeners : lpc[l] \notin {"new", "created"}
  /\ closeCalls < MaxCloseCalls
  /\ signal' = "fired"
  /\ closeCalls' = closeCalls + 1
  /\ IF closed
     THEN /\ closeErrs' = closeErrs + 1
          /\ UNCHANGED <<closed, listeners, httpConnections, lOpen, lCloseCalls,
                         cOpen, cCloseCalls, atCloseL, atCloseC>>
     ELSE /\ CloseBody
          /\ atCloseL' = listeners
          /\ atCloseC' = httpConnections
          /\ UNCHANGED closeErrs
  /\ UNCHANGED <<onErrorKind, lpc, acceptConn, acceptBackoffDelay, consecErrs,
                 cpc, cOwner, cTracked, nreq, disp, envVars, options, top>>

\* The abort event of options.signal: the listener `() => server.close()` runs,
\* once.  The listener is added and the server method is called in one
\* synchronous block, so the event comes after that call.
Abort ==
  /\ signal = "armed"
  /\ \E l \in budget.listeners : lpc[l] \notin {"new", "created"}
  /\ signal' = "fired"
  /\ closeCalls' = closeCalls + 1
  /\ IF closed
     THEN /\ closeErrs' = closeErrs + 1
          /\ UNCHANGED <<closed, listeners, httpConnections, lOpen, lCloseCalls,
                         cOpen, cCloseCalls, atCloseL, atCloseC>>
     ELSE /\ CloseBody
          /\ atCloseL' = listeners
          /\ atCloseC' = httpConnections
          /\ UNCHANGED closeErrs
  /\ UNCHANGED <<onErrorKind, lpc, acceptConn, acceptBackoffDelay, consecErrs,
                 cpc, cOwner, cTracked, nreq, disp, envVars, options, top>>

\* ---- the top-level functions ---------------------------------------------
\* `options.port ?? default`; the application passes { port: 7777 }.
Port(default) == IF options.hasPort THEN 7777 ELSE default

hostnameForDisplay(hostname) ==
  IF hostname = "0.0.0.0" THEN "localhost" ELSE hostname

\* A faulty variant: a listener added to a signal that has already aborted
\* runs all the same.
AddAbortListener_RunsOnAborted ==
  signal' = IF options.signal = "absent" THEN "none" ELSE "armed"

\* options?.signal?.addEventListener("abort", () => server.close(),
\* { once: true }): the abort event of a signal is dispatched once, so a
\* listener added after it is never run.
AddAbortListener ==
  signal' = CASE options.signal = "absent" -> "none"
              [] options.signal = "fresh" -> "armed"
              [] options.signal = "aborted" -> "aborted"

\* The statement of serve and serveTls that follows the call of the server
\* method: the onListen entry if the options have one, else console.log.
Announce(scheme, port, hostname) ==
  IF options.onListen = "absent"
  THEN [log |-> <<[scheme |-> scheme, host |-> hostnameForDisplay(hostname),
                   port |-> port]>>,
        onListenArgs |-> <<>>]
  ELSE [log |-> <<>>,
        onListenArgs |-> IF options.onListen = "function"
                         THEN <<[port |-> port, hostname |-> hostname]>>
                         ELSE <<>>]

\* The caller of serveListener creates the listener first.
CallerListens ==
  /\ top.pc = "new"
  /\ CreateListener(1)

\* serveListener(listener, handler, options) up to `await server.serve(..)`.
ServeListenerFn ==
  /\ top.pc = "new"
  /\ lpc[1] = "created"
  /\ AddAbortListener
  /\ ServeEnter(1)
  /\ top' = [pc |-> "called", fn |-> "serveListener", server |-> TRUE,
             log |-> <<>>, onListenArgs |-> <<>>]
  /\ UNCHANGED <<closed, httpConnections, onErrorKind, acceptConn,
                 acceptBackoffDelay, consecErrs, lOpen, lCloseCalls, connVars,
                 disp, closeCalls, closeErrs, atCloseL, atCloseC, options,
                 envVars>>

\* serve(handler, options) up to `return await s`.
ServeFn(bindOk) ==
  /\ top.pc = "new"
  /\ lpc[1] = "new"
  /\ AddAbortListener
  /\ ListenAndServeBody(1, "tcp", bindOk)
  /\ LET a == Announce("http", Port(8000), "0.0.0.0")
     IN top' = [pc |-> "called", fn |-> "serve", server |-> TRUE,
                log |-> a.log, onListenArgs |-> a.onListenArgs]
  /\ UNCHANGED <<closed, httpConnections, onErrorKind, acceptConn,
                 acceptBackoffDelay, consecErrs, lCloseCalls, connVars, disp,
                 closeCalls, closeErrs, atCloseL, atCloseC, options, envVars>>

\* A faulty variant: serveTls looks at keyFile and certFile only after the
\* server was constructed and asked to listen.
ServeTlsFn_ChecksLate(bindOk) ==
  /\ top.pc = "new"
  /\ lpc[1] = "new"
  /\ AddAbortListener
  /\ ListenAndServeBody(1, "tls", bindOk)
  /\ LET a == Announce("https", Port(8443), "0.0.0.0")
     IN top' = [pc |-> IF ~options.keyFile THEN "keyFileMissing"
                       ELSE IF ~options.certFile THEN "certFileMissing"
                       ELSE "called",
                fn |-> "serveTls", server |-> TRUE,
                log |-> a.log, onListenArgs |-> a.onListenArgs]
  /\ UNCHANGED <<closed, httpConnections, onErrorKind, acceptConn,
                 acceptBackoffDelay, consecErrs, lCloseCalls, connVars, disp,
                 closeCalls, closeErrs, atCloseL, atCloseC, options, envVars>>

\* serveTls(handler, options) up to its throw or to `return await s`.
ServeTlsFn(bindOk) ==
  /\ top.pc = "new"
  /\ lpc[1] = "new"
  /\ IF ~options.keyFile
     THEN /\ top' = [top EXCEPT !.pc = "keyFileMissing", !.fn = "serveTls"]
          /\ UNCHANGED <<signal, lpc, listeners, lOpen>>
     ELSE IF ~options.certFile
     THEN /\ top' = [top EXCEPT !.pc = "certFileMissing", !.fn = "serveTls"]
          /\ UNCHANGED <<signal, lpc, listeners, lOpen>>
     ELSE /\ AddAbortListener
          /\ ListenAndServeBody(1, "tls", bindOk)
          /\ LET a == Announce("https", Port(8443), "0.0.0.0")
             IN top' = [pc |-> "called", fn |-> "serveTls", server |-> TRUE,
                        log |-> a.log, onListenArgs |-> a.onListenArgs]
  /\ UNCHANGED <<closed, httpConnections, onErrorKind, acceptConn,
                 acceptBackoffDelay, consecErrs, lCloseCalls, connVars, disp,
                 closeCalls, closeErrs, atCloseL, atCloseC, options, envVars>>

\* The deprecated functions listenAndServe(config, handler, options) and
\* listenAndServeTls(config, certFile, keyFile, handler, options).
ListenAndServeFnKind(kind, bindOk) ==
  /\ top.pc = "new"
  /\ lpc[1] = "new"
  /\ AddAbortListener
  /\ ListenAndServeBody(1, kind, bindOk)
  /\ top' = [pc |-> "called",
             fn |-> IF kind = "tcp" THEN "listenAndServe"
                    ELSE "listenAndServeTls",
             server |-> TRUE, log |-> <<>>, onListenArgs |-> <<>>]
  /\ UNCHANGED <<closed, httpConnections, onErrorKind, acceptConn,
                 acceptBackoffDelay, consecErrs, lCloseCalls, connVars, disp,
                 closeCalls, closeErrs, atCloseL, atCloseC, options, envVars>>

ListenAndServeFn == \E bindOk \in BOOLEAN : ListenAndServeFnKind("tcp", bindOk)

ListenAndServeTlsFn == \E bindOk \in BOOLEAN : ListenAndServeFnKind("tls", bindOk)

\* ---- #accept -------------------------------------------------------------
\* The pending listener.accept() yields the next connection; the accept loop
\* resumes in a later step (AcceptConn).
AcceptSettle(l) ==
  /\ lpc[l] = "accept"
  /\ acceptConn[l] = 0
  /\ lOpen[l]
  /\ accepted + 1 \in budget.conns
  /\ acceptConn' = [acceptConn EXCEPT ![l] = accepted + 1]
  /\ accepted' = accepted + 1
  /\ UNCHANGED <<serverVars, lpc, acceptBackoffDelay, consecErrs, lOpen,
                 lCloseCalls, connVars, disp, callVars, transients, budget, asyncVars>>

\* The pending listener.accept() fails with an error of the transient list and
\* the catch block of #accept runs.  On a closed listener accept fails with
\* BadResource, which is in the list.
AcceptTransient(l) ==
  /\ lpc[l] = "accept"
  /\ acceptConn[l] = 0
  /\ lOpen[l] => transients < budget.transient
  /\ transients' = IF lOpen[l] THEN transients + 1 ELSE transients
  /\ acceptBackoffDelay' = [acceptBackoffDelay EXCEPT ![l] = NextBackoffDelay(@)]
  /\ consecErrs' = [consecErrs EXCEPT ![l] = @ + 1]
  /\ lpc' = [lpc EXCEPT ![l] = "delay"]
  /\ UNCHANGED <<serverVars, acceptConn, lOpen, lCloseCalls, connVars,
                 disp, callVars, accepted, budget, asyncVars>>

\* A faulty variant: a fatal accept error also marks the server closed.
AcceptFatal_ClosesServer(l) ==
  /\ lpc[l] = "accept"
  /\ acceptConn[l] = 0
  /\ lOpen[l]
  /\ lpc' = [lpc EXCEPT ![l] = "exitErr"]
  /\ closed' = TRUE
  /\ UNCHANGED <<listeners, httpConnections, onErrorKind, acceptConn,
                 acceptBackoffDelay, consecErrs, lOpen, lCloseCalls, connVars,
                 disp, callVars, envVars>>

\* The pending listener.accept() of an open listener fails with any other
\* error: `throw error`.
AcceptFatal(l) ==
  /\ lpc[l] = "accept"
  /\ acceptConn[l] = 0
  /\ lOpen[l]
  /\ lpc' = [lpc EXCEPT ![l] = "exitErr"]
  /\ UNCHANGED <<serverVars, acceptConn, acceptBackoffDelay, consecErrs,
                 lOpen, lCloseCalls, connVars, disp, callVars, envVars>>

\* delay(acceptBackoffDelay) elapsed: `continue`, then the loop condition.
BackoffElapsed(l) ==
  /\ lpc[l] = "delay"
  /\ lpc' = [lpc EXCEPT ![l] = AcceptLoopPc]
  /\ UNCHANGED <<serverVars, acceptConn, acceptBackoffDelay,
                 consecErrs, lOpen, lCloseCalls, connVars, disp, callVars, envVars>>

\* A faulty variant: the accept loop awaits #serveHttp of the connection.
AcceptConn_AwaitsServeHttp(l, promoted) ==
  /\ lpc[l] = "accept"
  /\ acceptConn[l] # 0
  /\ LET c == acceptConn[l] IN
     /\ acceptBackoffDelay' = [acceptBackoffDelay EXCEPT ![l] = Undefined]
     /\ consecErrs' = [consecErrs EXCEPT ![l] = 0]
     /\ cOwner' = [cOwner EXCEPT ![c] = l]
     /\ IF ~promoted
        THEN /\ cpc' = [cpc EXCEPT ![c] = "promoteFailed"]
             /\ UNCHANGED <<httpConnections, cOpen, cCloseCalls, cTracked>>
        ELSE /\ cTracked' = [cTracked EXCEPT ![c] = @ + 1]
             /\ IF closed
                THEN /\ httpConnections' = (httpConnections \cup {c}) \ {c}
                     /\ cCloseCalls' = [cCloseCalls EXCEPT ![c] = @ + 1]
                     /\ cOpen' = [cOpen EXCEPT ![c] = FALSE]
                     /\ cpc' = [cpc EXCEPT ![c] = "ended"]
                ELSE /\ httpConnections' = httpConnections \cup {c}
                     /\ cOpen' = [cOpen EXCEPT ![c] = TRUE]
                     /\ cpc' = [cpc EXCEPT ![c] = "next"]
                     /\ UNCHANGED cCloseCalls
  /\ lpc' = [lpc EXCEPT ![l] = IF promoted /\ ~closed THEN "awaitServeHttp"
                               ELSE AcceptLoopPc]
  /\ acceptConn' = [acceptConn EXCEPT ![l] = 0]
  /\ UNCHANGED <<closed, listeners, onErrorKind, lOpen, lCloseCalls,
                 nreq, disp, callVars, envVars>>

\* A faulty variant: a connection is tracked although Deno.serveHttp() threw.
AcceptConn_TracksUnpromoted(l, promoted) ==
  /\ lpc[l] = "accept"
  /\ acceptConn[l] # 0
  /\ LET c == acceptConn[l] IN
     /\ acceptBackoffDelay' = [acceptBackoffDelay EXCEPT ![l] = Undefined]
     /\ consecErrs' = [consecErrs EXCEPT ![l] = 0]
     /\ cOwner' = [cOwner EXCEPT ![c] = l]
     /\ IF ~promoted
        THEN /\ cpc' = [cpc EXCEPT ![c] = "promoteFailed"]
             /\ httpConnections' = httpConnections \cup {c}
             /\ UNCHANGED <<cOpen, cCloseCalls, cTracked>>
        ELSE /\ cTracked' = [cTracked EXCEPT ![c] = @ + 1]
             /\ IF closed
                THEN /\ httpConnections' = (httpConnections \cup {c}) \ {c}
                     /\ cCloseCalls' = [cCloseCalls EXCEPT ![c] = @ + 1]
                     /\ cOpen' = [cOpen EXCEPT ![c] = FALSE]
                     /\ cpc' = [cpc EXCEPT ![c] = "ended"]
                ELSE /\ httpConnections' = httpConnections \cup {c}
                     /\ cOpen' = [cOpen EXCEPT ![c] = TRUE]
                     /\ cpc' = [cpc EXCEPT ![c] = "next"]
                     /\ UNCHANGED cCloseCalls
  /\ lpc' = [lpc EXCEPT ![l] = AcceptLoopPc]
  /\ acceptConn' = [acceptConn EXCEPT ![l] = 0]
  /\ UNCHANGED <<closed, listeners, onErrorKind, lOpen, lCloseCalls,
                 nreq, disp, callVars, envVars>>

\* A faulty variant: an error of Deno.serveHttp() is thrown out of the accept loop.
AcceptConn_PromoteFailureThrows(l, promoted) ==
  /\ lpc[l] = "accept"
  /\ acceptConn[l] # 0
  /\ LET c == acceptConn[l] IN
     /\ acceptBackoffDelay' = [acceptBackoffDelay EXCEPT ![l] = Undefined]
     /\ consecErrs' = [consecErrs EXCEPT ![l] = 0]
     /\ cOwner' = [cOwner EXCEPT ![c] = l]
     /\ IF ~promoted
        THEN /\ cpc' = [cpc EXCEPT ![c] = "promoteFailed"]
             /\ UNCHANGED <<httpConnections, cOpen, cCloseCalls, cTracked>>
        ELSE /\ cTracked' = [cTracked EXCEPT ![c] = @ + 1]
             /\ IF closed
                THEN /\ httpConnections' = (httpConnections \cup {c}) \ {c}
                     /\ cCloseCalls' = [cCloseCalls EXCEPT ![c] = @ + 1]
                     /\ cOpen' = [cOpen EXCEPT ![c] = FALSE]
                     /\ cpc' = [cpc EXCEPT ![c] = "ended"]
                ELSE /\ httpConnections' = httpConnections \cup {c}
                     /\ cOpen' = [cOpen EXCEPT ![c] = TRUE]
                     /\ cpc' = [cpc EXCEPT ![c] = "next"]
                     /\ UNCHANGED cCloseCalls
  /\ lpc' = [lpc EXCEPT ![l] = IF promoted THEN AcceptLoopPc ELSE "exitErr"]
  /\ acceptConn' = [acceptConn EXCEPT ![l] = 0]
  /\ UNCHANGED <<closed, listeners, onErrorKind, lOpen, lCloseCalls,
                 nreq, disp, callVars, envVars>>

\* A faulty variant: #serveHttp awaits nextRequest() before it reads #closed.
AcceptConn_ServesLateConnection(l, promoted) ==
  /\ lpc[l] = "accept"
  /\ acceptConn[l] # 0
  /\ LET c == acceptConn[l] IN
     /\ acceptBackoffDelay' = [acceptBackoffDelay EXCEPT ![l] = Undefined]
     /\ consecErrs' = [consecErrs EXCEPT ![l] = 0]
     /\ cOwner' = [cOwner EXCEPT ![c] = l]
     /\ IF ~promoted
        THEN /\ cpc' = [cpc EXCEPT ![c] = "promoteFailed"]
             /\ UNCHANGED <<httpConnections, cOpen, cCloseCalls, cTracked>>
        ELSE /\ cTracked' = [cTracked EXCEPT ![c] = @ + 1]
             /\ IF FALSE
                THEN /\ httpConnections' = (httpConnections \cup {c}) \ {c}
                     /\ cCloseCalls' = [cCloseCalls EXCEPT ![c] = @ + 1]
                     /\ cOpen' = [cOpen EXCEPT ![c] = FALSE]
                     /\ cpc' = [cpc EXCEPT ![c] = "ended"]
                ELSE /\ httpConnections' = httpConnections \cup {c}
                     /\ cOpen' = [cOpen EXCEPT ![c] = TRUE]
                     /\ cpc' = [cpc EXCEPT ![c] = "next"]
                     /\ UNCHANGED cCloseCalls
  /\ lpc' = [lpc EXCEPT ![l] = AcceptLoopPc]
  /\ acceptConn' = [acceptConn EXCEPT ![l] = 0]
  /\ UNCHANGED <<closed, listeners, onErrorKind, lOpen, lCloseCalls,
                 nreq, disp, callVars, envVars>>

\* accept() yielded a connection: reset the backoff, Deno.serveHttp(conn)
\* (which may throw: `continue`), #trackHttpConnection, the synchronous start
\* of #serveHttp (its loop condition, then nextRequest() or #closeHttpConn),
\* then the loop condition of #accept.
AcceptConn(l, promoted) ==
  /\ lpc[l] = "accept"
  /\ acceptConn[l] # 0
  /\ LET c == acceptConn[l] IN
     /\ acceptBackoffDelay' = [acceptBackoffDelay EXCEPT ![l] = Undefined]
     /\ consecErrs' = [consecErrs EXCEPT ![l] = 0]
     /\ cOwner' = [cOwner EXCEPT ![c] = l]
     /\ IF ~promoted
        THEN /\ cpc' = [cpc EXCEPT ![c] = "promoteFailed"]
             /\ UNCHANGED <<httpConnections, cOpen, cCloseCalls, cTracked>>
        ELSE /\ cTracked' = [cTracked EXCEPT ![c] = @ + 1]
             /\ IF closed
                THEN /\ httpConnections' = (httpConnections \cup {c}) \ {c}
                     /\ cCloseCalls' = [cCloseCalls EXCEPT ![c] = @ + 1]
                     /\ cOpen' = [cOpen EXCEPT ![c] = FALSE]
                     /\ cpc' = [cpc EXCEPT ![c] = "ended"]
                ELSE /\ httpConnections' = httpConnections \cup {c}
                     /\ cOpen' = [cOpen EXCEPT ![c] = TRUE]
                     /\ cpc' = [cpc EXCEPT ![c] = "next"]
                     /\ UNCHANGED cCloseCalls
  /\ lpc' = [lpc EXCEPT ![l] = AcceptLoopPc]
  /\ acceptConn' = [acceptConn EXCEPT ![l] = 0]
  /\ UNCHANGED <<closed, listeners, onErrorKind, lOpen, lCloseCalls,
                 nreq, disp, callVars, envVars>>


\* ---- #serveHttp ----------------------------------------------------------
RECURSIVE SumReq(_)
SumReq(S) ==
  IF S = {} THEN 0
  ELSE LET c == CHOOSE x \in S : TRUE IN nreq[c] + SumReq(S \ {c})
\* requests pulled so far, over all connections
TotalReq == SumReq(ConnIds)

\* The error a handler raises for request n of connection c.
HandlerError(c, n) == <<c, n>>

\* #respond up to its first await: the handler is invoked.
StartDispatch(c, n) ==
  [disp EXCEPT ![c][n] = [NoDispatch EXCEPT !.pc = "handler"]]

\* A faulty variant: the request loop awaits each dispatch before the next request.
NextRequest_AwaitsRespond(c, r) ==
  /\ cpc[c] = "next"
  /\ r \in {"request", "null", "error"}
  /\ \A m \in ReqIds : disp[c][m].pc \in {"none", "done", "uncaught"}
  /\ r = "request" => cOpen[c] /\ nreq[c] < MaxReq /\ TotalReq < budget.reqs
  /\ IF r = "request" /\ ~closed
     THEN /\ nreq' = [nreq EXCEPT ![c] = @ + 1]
          /\ disp' = StartDispatch(c, nreq[c] + 1)
          /\ UNCHANGED <<cpc, httpConnections, cOpen, cCloseCalls>>
     ELSE /\ IF r = "request"
             THEN /\ nreq' = [nreq EXCEPT ![c] = @ + 1]
                  /\ disp' = StartDispatch(c, nreq[c] + 1)
             ELSE UNCHANGED <<nreq, disp>>
          /\ cpc' = [cpc EXCEPT ![c] = "ended"]
          /\ httpConnections' = httpConnections \ {c}
          /\ cCloseCalls' = [cCloseCalls EXCEPT ![c] = @ + 1]
          /\ cOpen' = [cOpen EXCEPT ![c] = FALSE]
  /\ UNCHANGED <<closed, listeners, onErrorKind, listenerVars, cOwner, cTracked,
                 callVars, envVars>>

\* A faulty variant: the request loop ends without #closeHttpConn.
NextRequest_LeavesConnection(c, r) ==
  /\ cpc[c] = "next"
  /\ r \in {"request", "null", "error"}
  /\ r = "request" => cOpen[c] /\ nreq[c] < MaxReq /\ TotalReq < budget.reqs
  /\ IF r = "request" /\ ~closed
     THEN /\ nreq' = [nreq EXCEPT ![c] = @ + 1]
          /\ disp' = StartDispatch(c, nreq[c] + 1)
          /\ UNCHANGED <<cpc, httpConnections, cOpen, cCloseCalls>>
     ELSE /\ IF r = "request"
             THEN /\ nreq' = [nreq EXCEPT ![c] = @ + 1]
                  /\ disp' = StartDispatch(c, nreq[c] + 1)
             ELSE UNCHANGED <<nreq, disp>>
          /\ cpc' = [cpc EXCEPT ![c] = "ended"]
          /\ UNCHANGED <<httpConnections, cCloseCalls, cOpen>>
  /\ UNCHANGED <<closed, listeners, onErrorKind, listenerVars, cOwner, cTracked,
                 callVars, envVars>>

\* The pending httpConn.nextRequest() settles and the loop resumes: a request
\* event (dispatched without awaiting, then the loop condition), null, or an
\* error (`break`, then #closeHttpConn).  A closed connection yields no request.
NextRequest(c, r) ==
  /\ cpc[c] = "next"
  /\ r \in {"request", "null", "error"}
  /\ r = "request" => cOpen[c] /\ nreq[c] < MaxReq /\ TotalReq < budget.reqs
  /\ IF r = "request" /\ ~closed
     THEN /\ nreq' = [nreq EXCEPT ![c] = @ + 1]
          /\ disp' = StartDispatch(c, nreq[c] + 1)
          /\ UNCHANGED <<cpc, httpConnections, cOpen, cCloseCalls>>
     ELSE /\ IF r = "request"
             THEN /\ nreq' = [nreq EXCEPT ![c] = @ + 1]
                  /\ disp' = StartDispatch(c, nreq[c] + 1)
             ELSE UNCHANGED <<nreq, disp>>
          /\ cpc' = [cpc EXCEPT ![c] = "ended"]
          /\ httpConnections' = httpConnections \ {c}
          /\ cCloseCalls' = [cCloseCalls EXCEPT ![c] = @ + 1]
          /\ cOpen' = [cOpen EXCEPT ![c] = FALSE]
  /\ UNCHANGED <<closed, listeners, onErrorKind, listenerVars, cOwner, cTracked,
                 callVars, envVars>>

\* ---- #respond ------------------------------------------------------------
\* What the configured error handler returns.
OnErrorResponse ==
  IF onErrorKind = "default" THEN DefaultOnErrorResponse ELSE CustomOnErrorResponse

\* A faulty variant: a handler error is treated like a send failure (#closeHttpConn).
HandlerSettle_ClosesConn(c, n, ok) ==
  /\ disp[c][n].pc = "handler"
  /\ disp' = [disp EXCEPT ![c][n] =
                IF ok
                THEN [@ EXCEPT !.pc = "send", !.response = HandlerResponse]
                ELSE [@ EXCEPT !.pc = "onError", !.onErrorCalls = @ + 1,
                               !.onErrorArg = HandlerError(c, n)]]
  /\ IF ok
     THEN UNCHANGED <<httpConnections, cOpen, cCloseCalls>>
     ELSE /\ httpConnections' = httpConnections \ {c}
          /\ cCloseCalls' = [cCloseCalls EXCEPT ![c] = @ + 1]
          /\ cOpen' = [cOpen EXCEPT ![c] = FALSE]
  /\ UNCHANGED <<closed, listeners, onErrorKind, listenerVars, cpc, cOwner,
                 cTracked, nreq, callVars, envVars>>

\* `await this.#handler(...)` settles: with a response, which is passed to
\* respondWith(), or with an error, which is passed to this.#onError().
HandlerSettle(c, n, ok) ==
  /\ disp[c][n].pc = "handler"
  /\ disp' = [disp EXCEPT ![c][n] =
                IF ok
                THEN [@ EXCEPT !.pc = "send", !.response = HandlerResponse]
                ELSE [@ EXCEPT !.pc = "onError", !.onErrorCalls = @ + 1,
                               !.onErrorArg = HandlerError(c, n)]]
  /\ UNCHANGED <<serverVars, listenerVars, connVars, callVars, envVars>>

\* A faulty variant: the result of onError is not assigned to `response`.
OnErrorSettle_DropsResponse(c, n, ok) ==
  /\ disp[c][n].pc = "onError"
  /\ ~ok => onErrorKind = "custom"
  /\ disp' = [disp EXCEPT ![c][n] =
                IF ok
                THEN [@ EXCEPT !.pc = "send", !.response = NoResponse]
                ELSE [@ EXCEPT !.pc = "uncaught"]]
  /\ UNCHANGED <<serverVars, listenerVars, connVars, callVars, envVars>>

\* `await this.#onError(error)` settles: with the fallback response, which is
\* passed to respondWith(), or (a configured onError only) with an error, which
\* nothing catches.
OnErrorSettle(c, n, ok) ==
  /\ disp[c][n].pc = "onError"
  /\ ~ok => onErrorKind = "custom"
  /\ disp' = [disp EXCEPT ![c][n] =
                IF ok
                THEN [@ EXCEPT !.pc = "send", !.response = OnErrorResponse]
                ELSE [@ EXCEPT !.pc = "uncaught"]]
  /\ UNCHANGED <<serverVars, listenerVars, connVars, callVars, envVars>>

\* A faulty variant: a failed send closes the connection without untracking it.
SendSettle_KeepsTracked(c, n, ok) ==
  /\ disp[c][n].pc = "send"
  /\ ok => cOpen[c]
  /\ disp' = [disp EXCEPT ![c][n] =
                [@ EXCEPT !.pc = "done", !.response = NoResponse]]
  /\ IF ok
     THEN UNCHANGED <<httpConnections, cOpen, cCloseCalls>>
     ELSE /\ UNCHANGED httpConnections
          /\ cCloseCalls' = [cCloseCalls EXCEPT ![c] = @ + 1]
          /\ cOpen' = [cOpen EXCEPT ![c] = FALSE]
  /\ UNCHANGED <<closed, listeners, onErrorKind, listenerVars, cpc, cOwner,
                 cTracked, nreq, callVars, envVars>>

\* A faulty variant: respondWith() is awaited outside a try block.
SendSettle_Propagates(c, n, ok) ==
  /\ disp[c][n].pc = "send"
  /\ ok => cOpen[c]
  /\ disp' = [disp EXCEPT ![c][n] =
                [@ EXCEPT !.pc = IF ok THEN "done" ELSE "uncaught",
                          !.response = NoResponse]]
  /\ UNCHANGED <<serverVars, listenerVars, connVars, callVars, envVars>>

\* `await requestEvent.respondWith(response)` settles.  It fails when the
\* connection has already been closed, and may fail otherwise; on failure the
\* catch block runs #closeHttpConn.
SendSettle(c, n, ok) ==
  /\ disp[c][n].pc = "send"
  /\ ok => cOpen[c]
  /\ disp' = [disp EXCEPT ![c][n] =
                [@ EXCEPT !.pc = "done", !.response = NoResponse]]
  /\ IF ok
     THEN UNCHANGED <<httpConnections, cOpen, cCloseCalls>>
     ELSE /\ httpConnections' = httpConnections \ {c}
          /\ cCloseCalls' = [cCloseCalls EXCEPT ![c] = @ + 1]
          /\ cOpen' = [cOpen EXCEPT ![c] = FALSE]
  /\ UNCHANGED <<closed, listeners, onErrorKind, listenerVars, cpc, cOwner,
                 cTracked, nreq, callVars, envVars>>

\* ---- the specification ---------------------------------------------------
Next ==
  \/ \E l \in ListenerIds : CreateListener(l)
  \/ \E l \in ListenerIds : Serve(l)
  \/ \E l \in ListenerIds : ListenAndServe(l)
  \/ \E l \in ListenerIds : ListenAndServeTls(l)
  \/ \E l \in ListenerIds : ServeFinally(l)
  \/ Close
  \/ \E l \in ListenerIds : AcceptSettle(l)
  \/ \E l \in ListenerIds : AcceptTransient(l)
  \/ \E l \in ListenerIds : AcceptFatal(l)
  \/ \E l \in ListenerIds : BackoffElapsed(l)
  \/ \E l \in ListenerIds, promoted \in BOOLEAN : AcceptConn(l, promoted)
  \/ \E c \in ConnIds, r \in {"request", "null", "error"} : NextRequest(c, r)
  \/ \E c \in ConnIds, n \in ReqIds, ok \in BOOLEAN : HandlerSettle(c, n, ok)
  \/ \E c \in ConnIds, n \in ReqIds, ok \in BOOLEAN : OnErrorSettle(c, n, ok)
  \/ \E c \in ConnIds, n \in ReqIds, ok \in BOOLEAN : SendSettle(c, n, ok)

\* The steps of the server of a top-level function: close() is called by the
\* abort listener only.
NextAbort ==
  \/ \E l \in ListenerIds : CreateListener(l)
  \/ \E l \in ListenerIds : Serve(l)
  \/ \E l \in ListenerIds : ListenAndServe(l)
  \/ \E l \in ListenerIds : ListenAndServeTls(l)
  \/ \E l \in ListenerIds : ServeFinally(l)
  \/ Abort
  \/ \E l \in ListenerIds : AcceptSettle(l)
  \/ \E l \in ListenerIds : AcceptTransient(l)
  \/ \E l \in ListenerIds : AcceptFatal(l)
  \/ \E l \in ListenerIds : BackoffElapsed(l)
  \/ \E l \in ListenerIds, promoted \in BOOLEAN : AcceptConn(l, promoted)
  \/ \E c \in ConnIds, r \in {"request", "null", "error"} : NextRequest(c, r)
  \/ \E c \in ConnIds, n \in ReqIds, ok \in BOOLEAN : HandlerSettle(c, n, ok)
  \/ \E c \in ConnIds, n \in ReqIds, ok \in BOOLEAN : OnErrorSettle(c, n, ok)
  \/ \E c \in ConnIds, n \in ReqIds, ok \in BOOLEAN : SendSettle(c, n, ok)

\* The steps of one call of a top-level function and of its server.
NextTop ==
  \/ CallerListens
  \/ ServeListenerFn
  \/ \E bindOk \in BOOLEAN : ServeFn(bindOk)
  \/ \E bindOk \in BOOLEAN : ServeTlsFn(bindOk)
  \/ ListenAndServeFn
  \/ ListenAndServeTlsFn
  \/ Abort
  \/ \E l \in ListenerIds : ServeFinally(l)
  \/ \E l \in ListenerIds : AcceptSettle(l)
  \/ \E l \in ListenerIds : AcceptTransient(l)
  \/ \E l \in ListenerIds : AcceptFatal(l)
  \/ \E l \in ListenerIds : BackoffElapsed(l)
  \/ \E l \in ListenerIds, promoted \in BOOLEAN : AcceptConn(l, promoted)
  \/ \E c \in ConnIds, r \in {"request", "null", "error"} : NextRequest(c, r)
  \/ \E c \in ConnIds, n \in ReqIds, ok \in BOOLEAN : HandlerSettle(c, n, ok)
  \/ \E c \in ConnIds, n \in ReqIds, ok \in BOOLEAN : OnErrorSettle(c, n, ok)
  \/ \E c \in ConnIds, n \in ReqIds, ok \in BOOLEAN : SendSettle(c, n, ok)

\* What the event loop and the runtime guarantee: a task whose awaited promise
\* has settled is resumed (the finally of serve(), the accept loop after
\* accept() yielded a connection), a timer fires, accept() on a closed listener
\* fails with BadResource, and nextRequest() on a closed connection yields
\* null or fails.
Fairness ==
  /\ \A l \in ListenerIds : WF_vars(ServeFinally(l))
  /\ \A l \in ListenerIds : WF_vars(BackoffElapsed(l))
  /\ \A l \in ListenerIds : WF_vars(\E promoted \in BOOLEAN : AcceptConn(l, promoted))
  /\ \A l \in ListenerIds : WF_vars(~lOpen[l] /\ AcceptTransient(l))
  /\ \A c \in ConnIds :
       WF_vars(~cOpen[c] /\ \E r \in {"null", "error"} : NextRequest(c, r))

Spec == Init /\ [][Next]_vars

SpecLive == InitLive /\ [][Next]_vars /\ Fairness

SpecAbort == InitAbort /\ [][NextAbort]_vars /\ Fairness

SpecTop == InitTop /\ [][NextTop]_vars

SpecDispatch == InitDispatch /\ [][Next]_vars

SpecBackoff == InitBackoff /\ [][Next]_vars

TypeOK ==
  /\ closed \in BOOLEAN
  /\ signal \in {"none", "armed", "fired", "aborted"}
  /\ top.pc \in {"none", "new", "called", "keyFileMissing", "certFileMissing"}
  /\ Len(top.log) <= 1
  /\ Len(top.onListenArgs) <= 1
  /\ listeners \subseteq ListenerIds
  /\ httpConnections \subseteq ConnIds
  /\ \A l \in ListenerIds :
       /\ lpc[l] \in {"new", "created", "accept", "delay", "exitOk", "exitErr", "returned",
                      "rejectedFatal", "rejectedClosed", "rejectedBind"}
       /\ acceptBackoffDelay[l] \in 0..MAX_ACCEPT_BACKOFF_DELAY
       /\ lCloseCalls[l] \in 0..2
  /\ \A c \in ConnIds :
       /\ cpc[c] \in {"new", "promoteFailed", "next", "ended"}
       /\ cCloseCalls[c] \in 0..(MaxReq + 2)
       /\ nreq[c] \in 0..MaxReq


\* ---- the utilities of std/async: what the server state is meanwhile ------
\* The state of the server and of its callers, which no utility touches.
httpVars == <<serverVars, listenerVars, connVars, disp, callVars, accepted,
              transients, budget>>

\* A server that is constructed and never used.
ServerIdle ==
  /\ InitServer
  /\ onErrorKind = "default"
  /\ signal = "none"
  /\ options = NoOptions
  /\ top = NoTop
  /\ budget = [listeners |-> {}, conns |-> {}, reqs |-> 0, transient |-> 0]

\* ---- deadline(p, delay) --------------------------------------------------
\* The arguments of a call that is about to be made: the delay, and a pending
\* promise p with the outcome it takes if it settles.
\*   pc: "new", "called";  t: the timer, "none", "set", "fired", "cleared";
\*   due: the time t is due;  race: Promise.race([p, d]);  result: the promise
\*   deadline returns;  settles: times result was settled;  first: which came
\*   first, "p" settled or the "timer" fired;  jobs: the promise jobs queued;
\*   now: the clock.
DeadlineFresh(delay, outcome) ==
  [pc |-> "new", delay |-> delay, outcome |-> outcome, p |-> Pending,
   d |-> Pending, t |-> "none", due |-> 0, race |-> Pending,
   result |-> Pending, settles |-> 0, first |-> "none", jobs |-> <<>>,
   now |-> 0]

\* SpecDeadline: one call of deadline, for every delay and outcome of p; p may
\* settle before the call, after it, or never.
InitDeadline ==
  /\ ServerIdle
  /\ ab = Idle
  /\ dl \in {DeadlineFresh(delay, outcome) :
               delay \in 0..MaxDelay,
               outcome \in {Fulfilled("v1"), Fulfilled("v2"), Rejected("e1")}}
  /\ db = Idle
  /\ tee = Idle
  /\ mux = Idle

\* deadline(p, delay): d = deferred(), t = setTimeout(.., delay),
\* Promise.race([p, d]) subscribes to p and to d, .finally(..) to the race.  A
\* promise that has settled already queues its reaction at once.
DeadlineCall ==
  /\ dl.pc = "new"
  /\ dl' = [dl EXCEPT !.pc = "called",
                      !.t = "set",
                      !.due = dl.now + dl.delay,
                      !.jobs = IF dl.p = Pending THEN <<>> ELSE <<"p">>]
  /\ UNCHANGED <<httpVars, db, tee, mux, ab>>

\* p settles (whoever holds it resolves or rejects it); the reaction of the
\* race is queued.
PSettles ==
  /\ dl.pc \in {"new", "called"}
  /\ dl.p = Pending
  /\ dl' = [dl EXCEPT !.p = dl.outcome,
                      !.first = IF @ = "none" THEN "p" ELSE @,
                      !.jobs = IF dl.pc = "called" THEN Append(@, "p") ELSE @]
  /\ UNCHANGED <<httpVars, db, tee, mux, ab>>

\* The callback of t: d.reject(new DeadlineError()).  A timer callback is a
\* task of its own: it runs when the delay has passed and no promise job is
\* queued.
TimerFires ==
  /\ dl.pc = "called"
  /\ dl.t = "set"
  /\ dl.now >= dl.due
  /\ dl.jobs = <<>>
  /\ dl' = [dl EXCEPT !.t = "fired",
                      !.d = Rejected("DeadlineError"),
                      !.first = IF @ = "none" THEN "timer" ELSE @,
                      !.jobs = <<"d">>]
  /\ UNCHANGED <<httpVars, db, tee, mux, ab>>

\* The reaction of Promise.race to p or to d: the first one settles the race
\* and queues the finally callback, a later one changes nothing.
RaceReaction ==
  /\ dl.pc = "called"
  /\ dl.jobs # <<>>
  /\ Head(dl.jobs) \in {"p", "d"}
  /\ dl' = IF dl.race = Pending
           THEN [dl EXCEPT !.race = IF Head(dl.jobs) = "p" THEN dl.p ELSE dl.d,
                           !.jobs = Append(Tail(@), "finally")]
           ELSE [dl EXCEPT !.jobs = Tail(@)]
  /\ UNCHANGED <<httpVars, db, tee, mux, ab>>

\* A faulty variant: the timer is left running.
Finally_KeepsTimer ==
  /\ dl.pc = "called"
  /\ dl.jobs # <<>>
  /\ Head(dl.jobs) = "finally"
  /\ dl' = [dl EXCEPT !.result = dl.race,
                      !.settles = @ + 1,
                      !.jobs = Tail(@)]
  /\ UNCHANGED <<httpVars, db, tee, mux, ab>>

\* .finally(() => clearTimeout(t)): the timer is cleared (which does nothing
\* to a timer that has fired) and the returned promise takes the outcome of
\* the race.
Finally ==
  /\ dl.pc = "called"
  /\ dl.jobs # <<>>
  /\ Head(dl.jobs) = "finally"
  /\ dl' = [dl EXCEPT !.t = IF @ = "set" THEN "cleared" ELSE @,
                      !.result = dl.race,
                      !.settles = @ + 1,
                      !.jobs = Tail(@)]
  /\ UNCHANGED <<httpVars, db, tee, mux, ab>>

\* Time passes, between tasks.
DeadlineTick ==
  /\ dl.pc \in {"new", "called"}
  /\ dl.jobs = <<>>
  /\ dl.now < MaxClock
  /\ dl' = [dl EXCEPT !.now = @ + 1]
  /\ UNCHANGED <<httpVars, db, tee, mux, ab>>

NextDeadline ==
  \/ DeadlineCall
  \/ PSettles
  \/ TimerFires
  \/ RaceReaction
  \/ Finally
  \/ DeadlineTick

\* Queued promise jobs are run, and a timer that is due fires.
FairnessDeadline ==
  /\ WF_vars(RaceReaction)
  /\ WF_vars(Finally)
  /\ WF_vars(TimerFires)

SpecDeadline == InitDeadline /\ [][NextDeadline]_vars /\ FairnessDeadline

\* ---- debounce(fn, wait) --------------------------------------------------
CallIds == 1..MaxCalls

\* debounce(fn, wait): `let timeout = null; let flush = null`.
\*   timeout: 0 (null) or the id of the timer last set;  flush: 0 (null) or
\*   the call whose arguments the closure holds;  active: timers set and
\*   neither fired nor cleared;  calls: calls of the debounced function (call
\*   k has the arguments k and the timer k);  callAt: the time of call k;
\*   invoked: the invocations of fn;  flushed: calls whose arguments
\*   debounced.flush() has passed to fn;  cleared: calls debounced.clear() has
\*   cancelled;  now: the clock.
DebounceFresh(wait) ==
  [pc |-> "ready", wait |-> wait, timeout |-> 0, flush |-> 0, active |-> {},
   calls |-> 0, callAt |-> [k \in CallIds |-> 0], invoked |-> <<>>,
   flushed |-> {}, cleared |-> {}, now |-> 0]

\* SpecDebounce: one debounced function, for every wait.
InitDebounce ==
  /\ ServerIdle
  /\ ab = Idle
  /\ dl = Idle
  /\ db \in {DebounceFresh(wait) : wait \in 0..MaxWait}
  /\ tee = Idle
  /\ mux = Idle

\* The timers left once debounced.clear() has run.
ClearedTimers == IF db.timeout # 0 THEN db.active \ {db.timeout} ELSE db.active

\* fn.call(debounced, ...args) with the arguments of call k.
Invoke(k) ==
  Append(db.invoked, [arg |-> k, at |-> db.now, calls |-> db.calls])

\* A faulty variant: a call sets its timer and leaves the previous one running.
DebouncedCall_KeepsTimer ==
  /\ db.pc = "ready"
  /\ db.calls < MaxCalls
  /\ db.now + db.wait <= MaxClock
  /\ db' = [db EXCEPT !.calls = @ + 1,
                      !.callAt[db.calls + 1] = db.now,
                      !.flush = db.calls + 1,
                      !.timeout = db.calls + 1,
                      !.active = @ \cup {db.calls + 1}]
  /\ UNCHANGED <<httpVars, dl, tee, mux, ab>>

\* debounced(...args): clear(), flush = the closure over args,
\* timeout = setTimeout(flush, wait).
DebouncedCall ==
  /\ db.pc = "ready"
  /\ db.calls < MaxCalls
  /\ db.now + db.wait <= MaxClock
  /\ db' = [db EXCEPT !.calls = @ + 1,
                      !.callAt[db.calls + 1] = db.now,
                      !.flush = db.calls + 1,
                      !.timeout = db.calls + 1,
                      !.active = ClearedTimers \cup {db.calls + 1}]
  /\ UNCHANGED <<httpVars, dl, tee, mux, ab>>

\* The timer of call k fires and runs the closure that call made:
\* debounced.clear(), then fn with the arguments of call k.
DebounceTimerFires(k) ==
  /\ db.pc = "ready"
  /\ k \in db.active
  /\ db.now >= db.callAt[k] + db.wait
  /\ db' = [db EXCEPT !.active = ClearedTimers \ {k},
                      !.timeout = 0,
                      !.flush = 0,
                      !.invoked = Invoke(k)]
  /\ UNCHANGED <<httpVars, dl, tee, mux, ab>>

\* debounced.clear()
DebouncedClear ==
  /\ db.pc = "ready"
  /\ db.calls > 0
  /\ db' = IF db.timeout # 0
           THEN [db EXCEPT !.active = ClearedTimers,
                           !.cleared = @ \cup {db.timeout},
                           !.timeout = 0,
                           !.flush = 0]
           ELSE db
  /\ UNCHANGED <<httpVars, dl, tee, mux, ab>>

\* debounced.flush(): flush?.()
DebouncedFlush ==
  /\ db.pc = "ready"
  /\ db.calls > 0
  /\ db' = IF db.flush # 0
           THEN [db EXCEPT !.active = ClearedTimers,
                           !.timeout = 0,
                           !.flush = 0,
                           !.invoked = Invoke(db.flush),
                           !.flushed = @ \cup {db.flush}]
           ELSE db
  /\ UNCHANGED <<httpVars, dl, tee, mux, ab>>

\* Time passes.
DebounceTick ==
  /\ db.pc = "ready"
  /\ db.now < MaxClock
  /\ db' = [db EXCEPT !.now = @ + 1]
  /\ UNCHANGED <<httpVars, dl, tee, mux, ab>>

NextDebounce ==
  \/ DebouncedCall
  \/ \E k \in CallIds : DebounceTimerFires(k)
  \/ DebouncedClear
  \/ DebouncedFlush
  \/ DebounceTick

\* Time passes and a timer that is due fires.
FairnessDebounce ==
  /\ WF_vars(DebounceTick)
  /\ \A k \in CallIds : WF_vars(DebounceTimerFires(k))

SpecDebounce == InitDebounce /\ [][NextDebounce]_vars /\ FairnessDebounce

\* ---- tee(iterable, n) ----------------------------------------------------
BranchIds == 1..MaxBranches

\* The finite sources: every sequence of at most MaxSrcLen values.
Sources == UNION {[1..n -> {"a", "b"}] : n \in 0..MaxSrcLen}

\* tee(iterable, n): new Queue(iterable) and the n generators, none started.
\*   src: the values the iterable yields;  nodes: the values of the nodes
\*   linked after queue.head;  done: queue.done;  srcCalls, srcSettled: calls
\*   of #source.next() made and settled;  of a branch, pc: "suspended",
\*   "awaiting" (queue.next()) or "ended";  buffer: its node (0: head);  call:
\*   the call of #source.next() it awaits;  out: the values it has yielded.
TeeFresh(src, n) ==
  [pc |-> "ready", src |-> src, n |-> n, nodes |-> <<>>, done |-> FALSE,
   srcCalls |-> 0, srcSettled |-> 0,
   branches |-> [b \in BranchIds |->
                   [pc |-> "suspended", buffer |-> 0, call |-> 0, out |-> <<>>]]]

\* SpecTee: one call of tee, for every source and every n.
InitTee ==
  /\ ServerIdle
  /\ ab = Idle
  /\ dl = Idle
  /\ db = Idle
  /\ tee \in {TeeFresh(src, n) : src \in Sources, n \in 1..MaxBranches}
  /\ mux = Idle

\* A faulty variant: the generator looks at queue.done before buffer.next.
BranchStep_DoneFirst(b) ==
  IF tee.done
  THEN [tee EXCEPT !.branches[b].pc = "ended"]
  ELSE IF tee.branches[b].buffer < Len(tee.nodes)
  THEN [tee EXCEPT !.branches[b].buffer = @ + 1,
                   !.branches[b].out =
                      Append(@, tee.nodes[tee.branches[b].buffer + 1]),
                   !.branches[b].pc = "suspended"]
  ELSE [tee EXCEPT !.srcCalls = @ + 1,
                   !.branches[b].call = tee.srcCalls + 1,
                   !.branches[b].pc = "awaiting"]

\* One round of `while (true)` of the generator, up to its yield, its return
\* or its await (queue.next() runs up to `await this.#source.next()`): the
\* state of tee after it.
BranchStep(b) ==
  IF tee.branches[b].buffer < Len(tee.nodes)
  THEN [tee EXCEPT !.branches[b].buffer = @ + 1,
                   !.branches[b].out =
                      Append(@, tee.nodes[tee.branches[b].buffer + 1]),
                   !.branches[b].pc = "suspended"]
  ELSE IF tee.done
  THEN [tee EXCEPT !.branches[b].pc = "ended"]
  ELSE [tee EXCEPT !.srcCalls = @ + 1,
                   !.branches[b].call = tee.srcCalls + 1,
                   !.branches[b].pc = "awaiting"]

\* The consumer of branch b calls next(): the generator starts, or goes on
\* after its yield.
TeePull(b) ==
  /\ tee.pc = "ready"
  /\ b <= tee.n
  /\ tee.branches[b].pc = "suspended"
  /\ tee' = BranchStep(b)
  /\ UNCHANGED <<httpVars, dl, db, mux, ab>>

\* A faulty variant: the new node is linked to the head, the tail never moves.
QueueNextSettles_LinksAtHead ==
  /\ tee.pc = "ready"
  /\ tee.srcSettled < tee.srcCalls
  /\ tee' = IF tee.srcSettled + 1 <= Len(tee.src)
            THEN [tee EXCEPT !.srcSettled = @ + 1,
                             !.nodes = <<tee.src[tee.srcSettled + 1]>>]
            ELSE [tee EXCEPT !.srcSettled = @ + 1,
                             !.done = TRUE]
  /\ UNCHANGED <<httpVars, dl, db, mux, ab>>

\* The oldest pending #source.next() settles (an async iterator answers its
\* calls in order) and Queue.next goes on: a value is linked at the tail, the
\* end of the source sets done.
QueueNextSettles ==
  /\ tee.pc = "ready"
  /\ tee.srcSettled < tee.srcCalls
  /\ tee' = IF tee.srcSettled + 1 <= Len(tee.src)
            THEN [tee EXCEPT !.srcSettled = @ + 1,
                             !.nodes = Append(@, tee.src[tee.srcSettled + 1])]
            ELSE [tee EXCEPT !.srcSettled = @ + 1,
                             !.done = TRUE]
  /\ UNCHANGED <<httpVars, dl, db, mux, ab>>

\* The generator of branch b goes on after `await queue.next()`.
TeeResume(b) ==
  /\ tee.pc = "ready"
  /\ tee.branches[b].pc = "awaiting"
  /\ tee.branches[b].call <= tee.srcSettled
  /\ tee' = BranchStep(b)
  /\ UNCHANGED <<httpVars, dl, db, mux, ab>>

NextTee ==
  \/ \E b \in BranchIds : TeePull(b)
  \/ QueueNextSettles
  \/ \E b \in BranchIds : TeeResume(b)

\* The consumers keep pulling, the source answers, awaits are resumed.
FairnessTee ==
  /\ \A b \in BranchIds : WF_vars(TeePull(b))
  /\ \A b \in BranchIds : WF_vars(TeeResume(b))
  /\ WF_vars(QueueNextSettles)

SpecTee == InitTee /\ [][NextTee]_vars /\ FairnessTee

\* SpecTeeFree: the source answers; no consumer is bound to pull.
SpecTeeFree == InitTee /\ [][NextTee]_vars /\ WF_vars(QueueNextSettles)

\* ---- MuxAsyncIterator ----------------------------------------------------
SourceIds == {1, 2}

\* The k-th value source s yields, the value it returns and the error it
\* throws.
SrcValue(s, k) == <<s, k>>
SrcReturn(s) == <<s, 0>>
SrcError(s) == <<s, -1>>

\* new MuxAsyncIterator(), and the sources that will be added.
\*   len: the number of values source s yields;  end: how it ends, "return"
\*   or "throw";  added: add() was called with it;  inflight: its
\*   calls of next() not answered yet (callIteratorNext at the await);  pos:
\*   the calls of next() it has answered;
\*   signal: "pending" or "resolved";  it: the generator of iterate(), "none",
\*   "start", "awaitSignal", "yield", "done", "thrown";  i: the index of its
\*   for loop (from 1);  delivered: the values it has yielded;  error: the
\*   error it has thrown, if any.
MuxFresh(len, end) ==
  [pc |-> "ready", len |-> len, end |-> end,
   added |-> [s \in SourceIds |-> FALSE],
   iteratorCount |-> 0, yields |-> <<>>, throws |-> <<>>, signal |-> "pending",
   inflight |-> [s \in SourceIds |-> 0],
   pos |-> [s \in SourceIds |-> 0],
   it |-> "none", i |-> 0, delivered |-> <<>>, error |-> <<>>]

\* SpecMux: one MuxAsyncIterator and one consumer, for all sources of at most
\* MaxMuxLen values that end by returning or by throwing; sources are added
\* at any time.
InitMux ==
  /\ ServerIdle
  /\ ab = Idle
  /\ dl = Idle
  /\ db = Idle
  /\ tee = Idle
  /\ mux \in {MuxFresh(len, end) :
                len \in [SourceIds -> 0..MaxMuxLen],
                end \in [SourceIds -> {"return", "throw"}]}

\* add(iterable): callIteratorNext runs up to `await iterator.next()`.
MuxAdd(s) ==
  /\ mux.pc = "ready"
  /\ ~mux.added[s]
  /\ mux' = [mux EXCEPT !.added[s] = TRUE,
                        !.iteratorCount = @ + 1,
                        !.inflight[s] = @ + 1]
  /\ UNCHANGED <<httpVars, dl, db, tee, ab>>

\* A faulty variant: the end of a source is counted without signal.resolve().
CallIteratorNextSettles_QuietDone(s) ==
  /\ mux.pc = "ready"
  /\ mux.inflight[s] > 0
  /\ mux' = IF mux.pos[s] < mux.len[s]
            THEN [mux EXCEPT !.inflight[s] = @ - 1,
                             !.pos[s] = @ + 1,
                             !.yields = Append(@, [iterator |-> s,
                                          value |-> SrcValue(s, mux.pos[s] + 1)]),
                             !.signal = "resolved"]
            ELSE IF mux.end[s] = "return" \/ mux.pos[s] > mux.len[s]
            THEN [mux EXCEPT !.inflight[s] = @ - 1,
                             !.pos[s] = @ + 1,
                             !.iteratorCount = @ - 1]
            ELSE [mux EXCEPT !.inflight[s] = @ - 1,
                             !.pos[s] = @ + 1,
                             !.throws = Append(@, SrcError(s)),
                             !.signal = "resolved"]
  /\ UNCHANGED <<httpVars, dl, db, tee, ab>>

\* callIteratorNext after `await iterator.next()`: a value is queued, the end
\* of the source is counted, an error is recorded; then signal.resolve().
CallIteratorNextSettles(s) ==
  /\ mux.pc = "ready"
  /\ mux.inflight[s] > 0
  /\ mux' = IF mux.pos[s] < mux.len[s]
            THEN [mux EXCEPT !.inflight[s] = @ - 1,
                             !.pos[s] = @ + 1,
                             !.yields = Append(@, [iterator |-> s,
                                          value |-> SrcValue(s, mux.pos[s] + 1)]),
                             !.signal = "resolved"]
            ELSE IF mux.end[s] = "return" \/ mux.pos[s] > mux.len[s]
            THEN [mux EXCEPT !.inflight[s] = @ - 1,
                             !.pos[s] = @ + 1,
                             !.iteratorCount = @ - 1,
                             !.signal = "resolved"]
            ELSE [mux EXCEPT !.inflight[s] = @ - 1,
                             !.pos[s] = @ + 1,
                             !.throws = Append(@, SrcError(s)),
                             !.signal = "resolved"]
  /\ UNCHANGED <<httpVars, dl, db, tee, ab>>

\* The consumer asks for the generator: iterate().
MuxIterate ==
  /\ mux.pc = "ready"
  /\ mux.it = "none"
  /\ mux' = [mux EXCEPT !.it = "start"]
  /\ UNCHANGED <<httpVars, dl, db, tee, ab>>

\* `while (this.iteratorCount > 0)`: to `await this.signal`, or to the end.
WhilePc(m) == IF m.iteratorCount > 0 THEN "awaitSignal" ELSE "done"

\* A faulty variant: the list is cleared and the signal reset after a batch of
\* one value.
ForLoop_ResetsEarly(m, i) ==
  IF i = 1 /\ i <= Len(m.yields)
  THEN [m EXCEPT !.it = "yield",
                 !.i = i,
                 !.delivered = Append(@, m.yields[i].value)]
  ELSE IF m.throws # <<>>
  THEN [m EXCEPT !.it = "thrown",
                 !.error = <<m.throws[1]>>]
  ELSE [m EXCEPT !.yields = <<>>,
                 !.signal = "pending",
                 !.it = WhilePc(m)]

\* A faulty variant: a recorded error is thrown before the rest of the list is
\* yielded.
ForLoop_ThrowsFirst(m, i) ==
  IF m.throws # <<>>
  THEN [m EXCEPT !.it = "thrown",
                 !.error = <<m.throws[1]>>]
  ELSE IF i <= Len(m.yields)
  THEN [m EXCEPT !.it = "yield",
                 !.i = i,
                 !.delivered = Append(@, m.yields[i].value)]
  ELSE [m EXCEPT !.yields = <<>>,
                 !.signal = "pending",
                 !.it = WhilePc(m)]

\* The for loop of iterate() from index i, up to the next yield; past the end
\* of the list, the first recorded error is thrown, or the list is cleared,
\* the signal reset and the while condition evaluated: the state after it.
ForLoop(m, i) ==
  IF i <= Len(m.yields)
  THEN [m EXCEPT !.it = "yield",
                 !.i = i,
                 !.delivered = Append(@, m.yields[i].value)]
  ELSE IF m.throws # <<>>
  THEN [m EXCEPT !.it = "thrown",
                 !.error = <<m.throws[1]>>]
  ELSE [m EXCEPT !.yields = <<>>,
                 !.signal = "pending",
                 !.it = WhilePc(m)]

\* A faulty variant: callIteratorNext(iterator) is called twice after a yield.
MuxPull_RequestsTwice ==
  /\ mux.pc = "ready"
  /\ mux.it \in {"start", "yield"}
  /\ mux' = IF mux.it = "start"
            THEN [mux EXCEPT !.it = WhilePc(mux)]
            ELSE ForLoop([mux EXCEPT
                            !.inflight[mux.yields[mux.i].iterator] = @ + 2],
                         mux.i + 1)
  /\ UNCHANGED <<httpVars, dl, db, tee, ab>>

\* The consumer calls next(): the generator starts, or goes on after its
\* yield with callIteratorNext(iterator) and the next round of the for loop.
MuxPull ==
  /\ mux.pc = "ready"
  /\ mux.it \in {"start", "yield"}
  /\ mux' = IF mux.it = "start"
            THEN [mux EXCEPT !.it = WhilePc(mux)]
            ELSE ForLoop([mux EXCEPT
                            !.inflight[mux.yields[mux.i].iterator] = @ + 1],
                         mux.i + 1)
  /\ UNCHANGED <<httpVars, dl, db, tee, ab>>

\* The generator goes on after `await this.signal`.
MuxSignalResume ==
  /\ mux.pc = "ready"
  /\ mux.it = "awaitSignal"
  /\ mux.signal = "resolved"
  /\ mux' = ForLoop(mux, 1)
  /\ UNCHANGED <<httpVars, dl, db, tee, ab>>

NextMux ==
  \/ \E s \in SourceIds : MuxAdd(s)
  \/ \E s \in SourceIds : CallIteratorNextSettles(s)
  \/ MuxIterate
  \/ MuxPull
  \/ MuxSignalResume

\* The sources answer, the consumer keeps pulling, awaits are resumed.
FairnessMux ==
  /\ \A s \in SourceIds : WF_vars(CallIteratorNextSettles(s))
  /\ WF_vars(MuxPull)
  /\ WF_vars(MuxSignalResume)

SpecMux == InitMux /\ [][NextMux]_vars /\ FairnessMux

\* ---- abortable(p, signal) ------------------------------------------------
\* The error createAbortError makes: a DOMException of name "AbortError".
AbortError == "AbortError"

\* The finite sources of abortableAsyncIterable: at most MaxAbLen values.
AbSources == UNION {[1..n -> {"a", "b"}] : n \in 0..MaxAbLen}

\* A promise job: a reaction of the race to the waiter ("raceWaiter"), to the
\* promise of p.finally ("racePf") or to the answer of it.next()
\* ("raceNext"), the reaction of p.finally to p ("finally"), the settling of
\* the promise p.finally returned ("pfSettles"), or the generator going on
\* after its await ("resume").  race: the race a reaction belongs to.
Job(kind, race) == [kind |-> kind, race |-> race]

\* abortable(p, signal) before the call.
\*   kind: p is a "promise" or an async "iterable";  aborted: signal.aborted;
\*   listener: the abort listener is registered;  adds, removes: calls of
\*   addEventListener that registered it and of removeEventListener;
\*   waiter: of state "none" before deferred();  jobs: the promise jobs queued;
\*   atAbort: how many values were yielded, how many calls of it.next()
\*   made and answered when the signal aborted, and whether p had settled.
\*   Of a promise, outcome: what p settles with;  pf: the promise p.finally
\*   returned;  result: the promise abortablePromise returns.
\*   Of an iterable, src: the values p yields;  srcCalls, srcSettled: calls
\*   of it.next() made and answered;  race: the number of the race of the
\*   current round;  raceState: its state;  gen: the generator, "none",
\*   "start", "awaiting", "yield", "done", "thrown";  out: the values it has
\*   yielded;  error: the error it has thrown.
AbFresh(kind, outcome, src, aborted) ==
  [pc |-> "ready", kind |-> kind, aborted |-> aborted,
   listener |-> FALSE, adds |-> 0, removes |-> 0,
   waiter |-> [state |-> "none", value |-> "none"],
   jobs |-> <<>>,
   atAbort |-> IF aborted
               THEN <<[out |-> 0, calls |-> 0, settled |-> 0, p |-> Pending]>>
               ELSE <<>>,
   outcome |-> outcome, p |-> Pending, pf |-> Pending, result |-> Pending,
   src |-> src, srcCalls |-> 0, srcSettled |-> 0,
   race |-> 0, raceState |-> Pending,
   gen |-> "none", out |-> <<>>, error |-> <<>>]

\* SpecAbortable: one call of abortable, with a promise of every outcome or
\* an iterable of every source, and a signal that is aborted before the call,
\* at any time after it, or never.
InitAbortable ==
  /\ ServerIdle
  /\ dl = Idle
  /\ db = Idle
  /\ tee = Idle
  /\ mux = Idle
  /\ ab \in {AbFresh("promise", outcome, <<>>, aborted) :
               outcome \in {Fulfilled("v1"), Rejected("e1")},
               aborted \in BOOLEAN}
            \cup {AbFresh("iterable", Pending, src, aborted) :
               src \in AbSources, aborted \in BOOLEAN}

\* abortablePromise(p, signal): Promise.reject(..) for an aborted signal;
\* otherwise the waiter, the listener, p.finally(..) (whose reaction is
\* queued at once when p has settled already) and the race.
AbortablePromise(a) ==
  IF a.aborted
  THEN [a EXCEPT !.pc = "called",
                 !.result = Rejected(AbortError)]
  ELSE [a EXCEPT !.pc = "called",
                 !.waiter = Pending,
                 !.listener = TRUE,
                 !.adds = @ + 1,
                 !.jobs = IF a.p = Pending THEN @
                          ELSE Append(@, Job("finally", 0))]

\* abortableAsyncIterable(p, signal): the call makes the generator object,
\* its body runs with the first next().
AbortableAsyncIterable(a) ==
  [a EXCEPT !.pc = "called", !.gen = "start"]

\* abortable(p, signal).
Abortable ==
  /\ ab.pc = "ready"
  /\ ab' = IF ab.kind = "promise"
           THEN AbortablePromise(ab)
           ELSE AbortableAsyncIterable(ab)
  /\ UNCHANGED <<httpVars, dl, db, tee, mux>>

\* p settles (before the call of abortable or after it); the reaction of
\* p.finally is queued when p.finally was called.
AbPSettles ==
  /\ ab.pc \in {"ready", "called"}
  /\ ab.kind = "promise"
  /\ ab.p = Pending
  /\ ab' = [ab EXCEPT !.p = ab.outcome,
                      !.jobs = IF ab.waiter.state = "none" THEN @
                               ELSE Append(@, Job("finally", 0))]
  /\ UNCHANGED <<httpVars, dl, db, tee, mux>>

\* controller.abort(), in any task or promise job: the signal is aborted and
\* the abort event dispatched; the listener, registered with once: true, is
\* removed and rejects the waiter, which queues the reaction of the race.
AbAbort ==
  /\ ab.pc \in {"ready", "called"}
  /\ ~ab.aborted
  /\ ab' = IF ab.listener
           THEN [ab EXCEPT !.aborted = TRUE,
                           !.atAbort = <<[out |-> Len(ab.out),
                                          calls |-> ab.srcCalls,
                                          settled |-> ab.srcSettled,
                                          p |-> ab.p]>>,
                           !.listener = FALSE,
                           !.waiter = Rejected(AbortError),
                           !.jobs = Append(@, Job("raceWaiter", ab.race))]
           ELSE [ab EXCEPT !.aborted = TRUE,
                           !.atAbort = <<[out |-> Len(ab.out),
                                          calls |-> ab.srcCalls,
                                          settled |-> ab.srcSettled,
                                          p |-> ab.p]>>]
  /\ UNCHANGED <<httpVars, dl, db, tee, mux>>

\* A faulty variant: the round does not race the waiter.
AbLoopRound_NoRace(a) ==
  [a EXCEPT !.srcCalls = @ + 1,
            !.race = @ + 1,
            !.raceState = Pending,
            !.gen = "awaiting"]

\* One round of `while (true)` of abortableAsyncIterable up to its await:
\* it.next() is called and raced against the waiter; a waiter rejected
\* before queues its reaction at once.
AbLoopRound(a) ==
  [a EXCEPT !.srcCalls = @ + 1,
            !.race = @ + 1,
            !.raceState = Pending,
            !.gen = "awaiting",
            !.jobs = IF a.waiter.state = "rejected"
                     THEN Append(@, Job("raceWaiter", a.race + 1)) ELSE @]

\* The consumer calls next(): the generator starts (the check of
\* signal.aborted, the waiter, the listener, the first round) or goes on
\* after its yield with the next round.
AbPull ==
  /\ ab.pc = "called"
  /\ ab.kind = "iterable"
  /\ ab.gen \in {"start", "yield"}
  /\ ab' = IF ab.gen = "yield"
           THEN AbLoopRound(ab)
           ELSE IF ab.aborted
           THEN [ab EXCEPT !.gen = "thrown", !.error = <<AbortError>>]
           ELSE AbLoopRound([ab EXCEPT !.waiter = Pending,
                                       !.listener = TRUE,
                                       !.adds = @ + 1])
  /\ UNCHANGED <<httpVars, dl, db, tee, mux>>

\* The source answers its oldest call of next(); the reaction of the race of
\* that round is queued.
AbSrcSettles ==
  /\ ab.pc = "called"
  /\ ab.kind = "iterable"
  /\ ab.srcSettled < ab.srcCalls
  /\ ab' = [ab EXCEPT !.srcSettled = @ + 1,
                      !.jobs = Append(@, Job("raceNext", ab.srcSettled + 1))]
  /\ UNCHANGED <<httpVars, dl, db, tee, mux>>

\* What the source answers to its k-th call of next(): done and value.
AbAnswer(a, k) ==
  IF k <= Len(a.src) THEN [done |-> FALSE, value |-> a.src[k]]
  ELSE [done |-> TRUE, value |-> "none"]

\* The generator goes on after `await Promise.race(..)`: it throws what the
\* race was rejected with, returns when the source is done, after
\* removeEventListener, or yields the value.
AbResume(a) ==
  IF a.raceState.state = "rejected"
  THEN [a EXCEPT !.gen = "thrown", !.error = <<a.raceState.value>>]
  ELSE IF a.raceState.value.done
  THEN [a EXCEPT !.gen = "done", !.listener = FALSE, !.removes = @ + 1]
  ELSE [a EXCEPT !.gen = "yield", !.out = Append(@, a.raceState.value.value)]

\* The oldest promise job runs.
AbJob ==
  /\ ab.pc = "called"
  /\ ab.jobs # <<>>
  /\ LET job == Head(ab.jobs)
         a == [ab EXCEPT !.jobs = Tail(@)]
     IN ab' =
          CASE job.kind = "finally" ->
                 [a EXCEPT !.listener = FALSE,
                           !.removes = @ + 1,
                           !.jobs = Append(@, Job("pfSettles", 0))]
            [] job.kind = "pfSettles" ->
                 [a EXCEPT !.pf = a.p,
                           !.jobs = Append(@, Job("racePf", 0))]
            [] job.kind = "racePf" ->
                 IF a.result = Pending THEN [a EXCEPT !.result = a.pf] ELSE a
            [] job.kind = "raceWaiter" /\ a.kind = "promise" ->
                 IF a.result = Pending THEN [a EXCEPT !.result = a.waiter] ELSE a
            [] job.kind = "raceWaiter" /\ a.kind = "iterable" ->
                 IF job.race = a.race /\ a.raceState.state = "pending"
                 THEN [a EXCEPT !.raceState = a.waiter,
                                !.jobs = Append(@, Job("resume", job.race))]
                 ELSE a
            [] job.kind = "raceNext" ->
                 IF job.race = a.race /\ a.raceState.state = "pending"
                 THEN [a EXCEPT !.raceState = Fulfilled(AbAnswer(a, job.race)),
                                !.jobs = Append(@, Job("resume", job.race))]
                 ELSE a
            [] job.kind = "resume" -> AbResume(a)
  /\ UNCHANGED <<httpVars, dl, db, tee, mux>>

NextAbortable ==
  \/ Abortable
  \/ AbPSettles
  \/ AbAbort
  \/ AbPull
  \/ AbSrcSettles
  \/ AbJob

\* Promise jobs run, the source answers, the consumer keeps pulling; p and
\* the signal are free.
FairnessAbortable ==
  /\ WF_vars(AbJob)
  /\ WF_vars(AbSrcSettles)
  /\ WF_vars(AbPull)

SpecAbortable == InitAbortable /\ [][NextAbortable]_vars /\ FairnessAbortable

\* ==== the claims ==========================================================
RECURSIVE Pow2(_)
Pow2(k) == IF k = 0 THEN 1 ELSE 2 * Pow2(k - 1)

Min(a, b) == IF a <= b THEN a ELSE b

\* serve calls that have completed
Completed == {"returned", "rejectedFatal", "rejectedClosed", "rejectedBind"}

\* C1: a close() that succeeds leaves the tracked-listener set and the
\* tracked-connection set empty, whatever they held before the call.
C1_CloseEmptiesTrackedSets ==
  [][(~closed /\ closed') => (listeners' = {} /\ httpConnections' = {})]_vars

\* close() succeeded on a server that tracked two listeners and two connections
C1_Witness ==
  /\ closed
  /\ Cardinality(atCloseL) = 2
  /\ Cardinality(atCloseC) = 2
  /\ listeners = {}
  /\ httpConnections = {}

\* C2: a close() on a closed server throws 'Server closed' and changes
\* nothing: the server stays closed, the tracked sets stay as they are (empty),
\* no listener or connection is closed and no close operation is invoked.
C2_SecondCloseThrowsAndChangesNothing ==
  [][(closed /\ closeCalls' # closeCalls) =>
       /\ closeErrs' = closeErrs + 1
       /\ closed'
       /\ listeners = {} /\ listeners' = {}
       /\ httpConnections = {} /\ httpConnections' = {}
       /\ UNCHANGED <<lOpen, lCloseCalls, cOpen, cCloseCalls, lpc, cpc, disp>>]_vars

\* the second close() has thrown, on a server whose first close() had
\* listeners and connections to close
C2_Witness ==
  /\ closed
  /\ closeCalls = 2
  /\ closeErrs = 1
  /\ atCloseL # {}
  /\ atCloseC # {}

\* C3: serve(listener), listenAndServe() and listenAndServeTls() on a closed
\* server reject with 'Server closed': no listener is created, the given
\* listener is not tracked and no accept is attempted.
C3_ServeAfterCloseRejects ==
  [][\A l \in ListenerIds :
       (closed /\ lpc[l] \in {"new", "created"} /\ lpc'[l] \notin {"new", "created"})
         => /\ lpc'[l] = "rejectedClosed"
            /\ lOpen'[l] = lOpen[l]
            /\ listeners' = listeners
            /\ l \notin listeners'
            /\ acceptConn'[l] = 0
            /\ accepted' = accepted]_vars

\* after close(), a serve(listener) call with an open listener and a
\* listenAndServe()/listenAndServeTls() call have both been rejected
C3_Witness ==
  /\ closed
  /\ \E l1, l2 \in ListenerIds :
       /\ lpc[l1] = "rejectedClosed" /\ lOpen[l1]
       /\ lpc[l2] = "rejectedClosed" /\ ~lOpen[l2] /\ lCloseCalls[l2] = 0

\* The delay after the k-th consecutive transient accept error.
ExpectedDelay(k) ==
  IF k = 0 THEN Undefined ELSE Min(5 * Pow2(k - 1), 1000)

\* C4: the delay awaited after the k-th consecutive transient accept error is
\* min(5 * 2^(k-1), 1000) ms, it never exceeds 1000, and after a successful
\* accept the backoff is unset, so that the next transient error waits 5 ms.
C4_BackoffSequence ==
  \A l \in ListenerIds :
    /\ acceptBackoffDelay[l] = ExpectedDelay(consecErrs[l])
    /\ acceptBackoffDelay[l] <= 1000
    /\ (lpc[l] = "delay" /\ consecErrs[l] = 1) => acceptBackoffDelay[l] = 5

\* an accept loop waits 1000 ms after ten consecutive transient errors
C4_Witness ==
  \E l \in ListenerIds :
    /\ lpc[l] = "delay"
    /\ consecErrs[l] = 10
    /\ acceptBackoffDelay[l] = 1000

\* an accept loop waits 5 ms again after a connection reset the backoff
C4_WitnessReset ==
  \E l \in ListenerIds :
    /\ lpc[l] = "delay"
    /\ consecErrs[l] = 1
    /\ accepted = 1
    /\ transients >= 3


\* The handler has raised for request n of connection c.
HandlerRaised(c, n) == disp[c][n].onErrorCalls > 0

\* C5: a handler failure leaves the request loop of its connection, the
\* connection itself, the other connections and the accept loops as they are,
\* and after it the request loop of every open connection can still pull and
\* dispatch a request.
C5_HandlerFailureIsolated ==
  /\ [][\A c \in ConnIds, n \in ReqIds :
          (disp[c][n].pc = "handler" /\ disp'[c][n].pc = "onError")
            => UNCHANGED <<cpc, cOpen, cCloseCalls, httpConnections, nreq,
                           listenerVars, closed, listeners>>]_vars
  /\ [](\A c \in ConnIds :
          ((\E c2 \in ConnIds, n \in ReqIds : HandlerRaised(c2, n))
            /\ cpc[c] = "next" /\ cOpen[c] /\ nreq[c] < MaxReq
            /\ TotalReq < budget.reqs)
          => ENABLED NextRequest(c, "request"))

\* the handler raised on the first request of connection 1 and that dispatch
\* is over; the second request of connection 1 has been dispatched to the
\* handler, both connections are open and tracked, their request loops and the
\* accept loop are running
C5_Witness ==
  /\ disp[1][1].pc = "done"
  /\ HandlerRaised(1, 1)
  /\ disp[1][2].pc = "handler"
  /\ cpc[1] = "next" /\ cpc[2] = "next"
  /\ cOpen[1] /\ cOpen[2]
  /\ httpConnections = {1, 2}
  /\ lpc[1] = "accept"


\* C6 as claimed: over the whole run the close operation of every listener and
\* connection that was tracked when close() succeeded is invoked exactly once.
C6_ClosedExactlyOnce ==
  closed =>
    /\ \A l \in atCloseL : lCloseCalls[l] = 1
    /\ \A c \in atCloseC : cCloseCalls[c] = 1

\* C6 as amended: close() itself invokes the close operation of every tracked
\* listener and connection exactly once and of no other; from then on each of
\* them stays closed, and the later invocations (the exit of serve(), the exit
\* of the request loop, a failed send) hit a resource that is already closed:
\* at most one more for a listener, at most one more per loop exit and per
\* request for a connection.
C6_ClosedOnceByCloseThenRepeats ==
  /\ [][(~closed /\ closed') =>
          /\ \A l \in ListenerIds :
               lCloseCalls'[l] = lCloseCalls[l] + (IF l \in listeners THEN 1 ELSE 0)
          /\ \A c \in ConnIds :
               cCloseCalls'[c] = cCloseCalls[c] + (IF c \in httpConnections THEN 1 ELSE 0)]_vars
  /\ [](closed =>
          /\ \A l \in atCloseL :
               /\ ~lOpen[l]
               /\ lCloseCalls[l] = 1 + (IF lpc[l] \in Completed THEN 1 ELSE 0)
          /\ \A c \in atCloseC :
               /\ ~cOpen[c]
               /\ cCloseCalls[c] >= 1 + (IF cpc[c] = "ended" THEN 1 ELSE 0)
               /\ cCloseCalls[c] <= 1 + (IF cpc[c] = "ended" THEN 1 ELSE 0) + nreq[c])

\* after close(), the serve() call of a listener that close() closed has
\* exited and the request loop of a connection that close() closed has ended
C6_Witness ==
  /\ closed
  /\ \E l \in atCloseL : lCloseCalls[l] = 2 /\ lpc[l] = "returned"
  /\ \E c \in atCloseC : cCloseCalls[c] = 2 /\ cpc[c] = "ended"

\* C7: with two connections tracked and a dispatch in flight, close() closes
\* and untracks both; the send of a dispatch of such a connection that settles
\* after close() fails, the failure ends the dispatch quietly (#closeHttpConn
\* on the closed connection), no serve() call and no close() call sees an error
\* from it and no connection becomes tracked.
C7_CloseWithDispatchInFlight ==
  /\ [][(~closed /\ closed') =>
          \A c \in httpConnections : ~cOpen'[c] /\ c \notin httpConnections']_vars
  /\ [][\A c \in ConnIds, n \in ReqIds :
          (closed /\ c \in atCloseC
             /\ disp[c][n].pc = "send" /\ disp'[c][n].pc # "send")
          => /\ disp'[c][n].pc = "done"
             /\ cCloseCalls'[c] = cCloseCalls[c] + 1
             /\ httpConnections' = {}
             /\ \A c2 \in ConnIds, n2 \in ReqIds :
                  disp'[c2][n2].pc = "uncaught" => disp[c2][n2].pc = "uncaught"
             /\ UNCHANGED <<closed, listeners, lpc, closeCalls, closeErrs, cpc, cOpen>>]_vars

\* close() closed two connections, one with a dispatch in flight whose send
\* has failed since (its request loop has not ended yet)
C7_Witness ==
  /\ closed
  /\ atCloseC = {1, 2}
  /\ \E c \in atCloseC, n \in ReqIds :
       /\ disp[c][n].pc = "done"
       /\ cpc[c] = "next"
       /\ cCloseCalls[c] = 2
  /\ httpConnections = {}

\* C8 as claimed: every serve(listener) call that has completed has closed the
\* listener it was given.
C8_ServeAlwaysClosesListener ==
  \A l \in ListenerIds : lpc[l] \in Completed => ~lOpen[l]

\* C9: the closed flag never goes back to false, and the only step that sets it
\* is a close() call that does not throw.
C9_ClosedOnceIrreversibly ==
  [][/\ closed => closed'
     /\ closed' # closed => (closeCalls' = closeCalls + 1 /\ closeErrs' = closeErrs)]_vars

\* the server is closed; before the close() a serve() call was rejected with a
\* fatal accept error, after it a serve() call returned, a request loop ended
\* and a second close() threw
C9_Witness ==
  /\ closed
  /\ \E l \in ListenerIds : lpc[l] = "rejectedFatal" /\ l \notin atCloseL
  /\ \E l \in ListenerIds : lpc[l] = "returned"
  /\ \E c \in ConnIds : cpc[c] = "ended"
  /\ closeErrs = 1

\* C10: when the handler raises for a request, onError is invoked once, with
\* that error, and what it returns (by default the status-500 'Internal Server
\* Error' response) is the response passed to respondWith() of that request;
\* the steps from the failure to that send leave the connection open and
\* tracked.
C10_FallbackResponseSent ==
  /\ [](\A c \in ConnIds, n \in ReqIds :
          LET d == disp[c][n] IN
          /\ d.onErrorCalls <= 1
          /\ d.pc = "onError" => d.onErrorCalls = 1 /\ d.onErrorArg = <<c, n>>
          /\ (d.pc = "send" /\ d.onErrorCalls = 1) =>
               d.response = IF onErrorKind = "default"
                            THEN [status |-> 500, body |-> "Internal Server Error"]
                            ELSE CustomOnErrorResponse
          /\ (d.pc = "send" /\ d.onErrorCalls = 0) => d.response = HandlerResponse)
  /\ [][\A c \in ConnIds, n \in ReqIds :
          (\/ disp[c][n].pc = "handler" /\ disp'[c][n].pc = "onError"
           \/ disp[c][n].pc = "onError" /\ disp'[c][n].pc = "send")
          => UNCHANGED <<cOpen, httpConnections, cCloseCalls, cpc>>]_vars

\* the default 500 response is being sent for a request whose handler raised,
\* on a connection that is open and tracked
C10_Witness ==
  \E c \in ConnIds, n \in ReqIds :
    /\ onErrorKind = "default"
    /\ disp[c][n].pc = "send"
    /\ disp[c][n].onErrorCalls = 1
    /\ disp[c][n].response.status = 500
    /\ cOpen[c] /\ c \in httpConnections

\* C11 as claimed: no failure raised while a request is dispatched (by the
\* handler, by onError or by respondWith()) leaves its dispatch: no #respond
\* call ends with an error that nothing catches.
C11_NoDispatchFailurePropagates ==
  \A c \in ConnIds, n \in ReqIds : disp[c][n].pc # "uncaught"

\* C12: a failed send untracks and closes the connection of that exchange and
\* nothing else: the closed flag, the tracked listeners, the other tracked
\* connections, the request loops and the accept loops stay as they are.
C12_SendFailureClosesOnlyItsConnection ==
  [][\A c \in ConnIds, n \in ReqIds :
       (disp[c][n].pc = "send" /\ disp'[c][n].pc # "send"
          /\ cCloseCalls'[c] # cCloseCalls[c])
       => /\ httpConnections' = httpConnections \ {c}
          /\ ~cOpen'[c]
          /\ cCloseCalls'[c] = cCloseCalls[c] + 1
          /\ \A c2 \in ConnIds \ {c} :
               /\ cOpen'[c2] = cOpen[c2]
               /\ cCloseCalls'[c2] = cCloseCalls[c2]
               /\ (c2 \in httpConnections' <=> c2 \in httpConnections)
          /\ UNCHANGED <<closed, listeners, cpc, lpc, lOpen, lCloseCalls,
                         acceptConn, acceptBackoffDelay>>]_vars

\* on a server that is not closed a send failed on a connection whose request
\* loop is still waiting: that connection is closed and untracked, the other
\* one is open and tracked, the accept loop is running
C12_Witness ==
  /\ ~closed
  /\ \E c \in ConnIds, n \in ReqIds :
       /\ disp[c][n].pc = "done"
       /\ cpc[c] = "next"
       /\ cCloseCalls[c] = 1 /\ ~cOpen[c]
       /\ httpConnections = ConnIds \ {c}
       /\ \A c2 \in ConnIds \ {c} : cOpen[c2] /\ cpc[c2] = "next"
  /\ lpc[1] = "accept" /\ listeners = {1} /\ lOpen[1]

\* C13: a fatal accept error ends the accept loop in that step, keeping the
\* backoff as it was and awaiting no delay; the accept loop is never resumed;
\* the serve() call rejects with the error, and when it does the listener is
\* untracked and closed.
C13_FatalAcceptEndsServe ==
  /\ [][\A l \in ListenerIds :
          /\ (lpc[l] = "accept" /\ lpc'[l] = "exitErr")
               => /\ acceptBackoffDelay'[l] = acceptBackoffDelay[l]
                  /\ consecErrs'[l] = consecErrs[l]
                  /\ transients' = transients /\ accepted' = accepted
          /\ (lpc[l] = "exitErr" /\ lpc'[l] # "exitErr")
               => /\ lpc'[l] = "rejectedFatal"
                  /\ l \notin listeners' /\ ~lOpen'[l]
                  /\ lCloseCalls'[l] = lCloseCalls[l] + 1
          /\ lpc[l] = "rejectedFatal" => lpc'[l] = "rejectedFatal"]_vars
  /\ [](\A l \in ListenerIds :
          lpc[l] = "rejectedFatal" =>
            /\ l \notin listeners /\ ~lOpen[l] /\ acceptConn[l] = 0
            /\ ~ENABLED AcceptSettle(l)
            /\ ~ENABLED AcceptTransient(l)
            /\ ~ENABLED BackoffElapsed(l))

\* a serve() call was rejected with a fatal accept error that came after three
\* transient ones: the 20 ms backoff was left as it was
C13_Witness ==
  /\ ~closed
  /\ lpc[1] = "rejectedFatal"
  /\ consecErrs[1] = 3
  /\ acceptBackoffDelay[1] = 20
  /\ lCloseCalls[1] = 1

\* serve calls in progress: from the entry of serve() to the end of its finally
InProgress == {"accept", "delay", "exitOk", "exitErr"}

\* dispatches in flight
InFlight == {"handler", "onError", "send"}

\* C15: the step of the accept loop that tracks a connection and starts its
\* request loop ends at the next listener.accept(), and whatever the request
\* loops of the earlier connections are doing, a waiting accept loop can be
\* handed the next connection and a resumed one can track and serve it.
C15_AcceptDoesNotAwaitRequestLoop ==
  /\ [][\A c \in ConnIds :
          (cpc[c] = "new" /\ cpc'[c] = "next")
            => /\ lpc'[cOwner'[c]] = "accept"
               /\ acceptConn'[cOwner'[c]] = 0
               /\ c \in httpConnections' /\ cOpen'[c]
               /\ \A c2 \in ConnIds \ {c} : cpc'[c2] = cpc[c2]]_vars
  /\ [](\A l \in ListenerIds :
          /\ (lpc[l] = "accept" /\ acceptConn[l] = 0 /\ lOpen[l]
                /\ accepted + 1 \in budget.conns)
               => ENABLED AcceptSettle(l)
          /\ (lpc[l] = "accept" /\ acceptConn[l] # 0)
               => ENABLED AcceptConn(l, TRUE))

\* one accept loop accepted and tracked two connections; both request loops
\* wait for a first request that has not come, and the accept loop is at its
\* next accept()
C15_Witness ==
  /\ ~closed
  /\ cOwner[1] = 1 /\ cOwner[2] = 1
  /\ cpc[1] = "next" /\ cpc[2] = "next"
  /\ nreq[1] = 0 /\ nreq[2] = 0
  /\ httpConnections = {1, 2}
  /\ lpc[1] = "accept"

\* C16: the step of the request loop that pulls a request starts its dispatch
\* and leaves the earlier dispatches of the connection as they are, and ends at
\* the next nextRequest(); while dispatches of a connection are in flight its
\* request loop can pull the next request.
C16_RequestLoopDoesNotAwaitDispatch ==
  /\ [][\A c \in ConnIds :
          nreq'[c] = nreq[c] + 1
            => /\ disp'[c][nreq'[c]].pc = "handler"
               /\ \A m \in ReqIds \ {nreq'[c]} : disp'[c][m] = disp[c][m]
               /\ ~closed => (cpc'[c] = "next" /\ cOpen'[c])]_vars
  /\ [](\A c \in ConnIds :
          (/\ \E n \in ReqIds : disp[c][n].pc \in InFlight
           /\ cpc[c] = "next" /\ cOpen[c]
           /\ nreq[c] < MaxReq /\ TotalReq < budget.reqs)
          => ENABLED NextRequest(c, "request"))

\* the handler has not returned for the first request of a connection; its
\* second request has been pulled, dispatched and answered since
C16_Witness ==
  \E c \in ConnIds :
    /\ disp[c][1].pc = "handler"
    /\ disp[c][2].pc = "done"
    /\ disp[c][2].onErrorCalls = 0
    /\ cOpen[c] /\ c \in httpConnections /\ cpc[c] = "next"

\* C17: when nextRequest() yields null or fails, the request loop ends and the
\* connection is untracked and closed in that step; the dispatches in flight,
\* the closed flag, the listeners, the accept loops and the other connections
\* are unchanged, and no further request is pulled from it.
C17_RequestLoopEndClosesConnection ==
  /\ [][\A c \in ConnIds :
          (cpc[c] = "next" /\ cpc'[c] = "ended" /\ nreq'[c] = nreq[c])
            => /\ httpConnections' = httpConnections \ {c}
               /\ ~cOpen'[c]
               /\ cCloseCalls'[c] = cCloseCalls[c] + 1
               /\ \A c2 \in ConnIds \ {c} :
                    /\ cpc'[c2] = cpc[c2]
                    /\ cOpen'[c2] = cOpen[c2]
                    /\ cCloseCalls'[c2] = cCloseCalls[c2]
               /\ UNCHANGED <<disp, closed, listeners, lpc, lOpen, lCloseCalls,
                              acceptConn>>]_vars
  /\ [](\A c \in ConnIds :
          cpc[c] = "ended" =>
            /\ c \notin httpConnections /\ ~cOpen[c]
            /\ \A r \in {"request", "null", "error"} : ~ENABLED NextRequest(c, r))

\* on a server that is not closed the request loop of a connection ended while
\* a dispatch of it was in flight; the other connection is open and tracked and
\* the accept loop is running
C17_Witness ==
  /\ ~closed
  /\ \E c \in ConnIds :
       /\ cpc[c] = "ended"
       /\ disp[c][1].pc = "handler"
       /\ cCloseCalls[c] = 1
       /\ httpConnections = ConnIds \ {c}
       /\ \A c2 \in ConnIds \ {c} : cOpen[c2] /\ cpc[c2] = "next"
  /\ lpc[1] = "accept" /\ listeners = {1}

\* C18: a tracked connection was handed out by accept to one accept loop of
\* this server, which promoted it, tracked it once and started its one request
\* loop; a connection is owned by one accept loop for good; a connection that
\* accept has yielded to a loop that has not resumed, or whose promotion
\* failed, is not tracked.
C18_TrackedConnectionsComeFromAccept ==
  /\ [](\A c \in ConnIds :
          /\ c \in httpConnections =>
               /\ c <= accepted
               /\ cOwner[c] \in ListenerIds
               /\ cTracked[c] = 1
               /\ cpc[c] = "next"
          /\ cTracked[c] <= 1
          /\ cpc[c] \in {"next", "ended"} <=> cTracked[c] = 1
          /\ cpc[c] \in {"new", "promoteFailed"} => c \notin httpConnections)
  /\ [](\A l1, l2 \in ListenerIds :
          (l1 # l2 /\ acceptConn[l1] # 0) => acceptConn[l1] # acceptConn[l2])
  /\ [][\A c \in ConnIds : cOwner[c] # 0 => cOwner'[c] = cOwner[c]]_vars

\* two connections are tracked, each accepted by another accept loop
C18_Witness ==
  /\ httpConnections = {1, 2}
  /\ cOwner[1] # cOwner[2]
  /\ cTracked[1] = 1 /\ cTracked[2] = 1
  /\ \A l \in ListenerIds : lpc[l] = "accept"

\* C19: on a server that is not closed the tracked listeners are those of the
\* serve() calls in progress: a listener is tracked by the step that enters
\* serve() and untracked by the step that completes it; a listener not yet
\* passed to serve() and one whose serve() call completed are never tracked.
C19_ListenerTrackedWhileServing ==
  /\ [](\A l \in ListenerIds :
          /\ ~closed => (l \in listeners <=> lpc[l] \in InProgress)
          /\ lpc[l] \notin InProgress => l \notin listeners)
  /\ [][\A l \in ListenerIds :
          /\ (lpc[l] \notin InProgress /\ lpc'[l] \in InProgress)
               => (l \notin listeners /\ l \in listeners')
          /\ (lpc[l] \in InProgress /\ lpc'[l] \notin InProgress)
               => (lpc'[l] \in {"returned", "rejectedFatal"} /\ l \notin listeners')]_vars

\* on a server that is not closed one serve() call was rejected with a fatal
\* accept error and its listener is no longer tracked, while the listener of
\* the other call, which is in progress, is
C19_Witness ==
  /\ ~closed
  /\ lpc[1] = "rejectedFatal" /\ lCloseCalls[1] = 1
  /\ lpc[2] = "accept"
  /\ listeners = {2}

C23_PromotionFailureSkipsConnection ==
  /\ [][\A c \in ConnIds :
          (cpc[c] = "new" /\ cpc'[c] = "promoteFailed")
            => LET l == cOwner'[c] IN
               /\ l = CHOOSE x \in ListenerIds : acceptConn[x] = c
               /\ httpConnections' = httpConnections
               /\ c \notin httpConnections'
               /\ cTracked'[c] = 0 /\ nreq'[c] = 0
               /\ acceptBackoffDelay'[l] = Undefined /\ consecErrs'[l] = 0
               /\ lpc'[l] = (IF closed THEN "exitOk" ELSE "accept")
               /\ acceptConn'[l] = 0
               /\ UNCHANGED <<closed, listeners, cOpen, cCloseCalls, disp>>]_vars
  /\ [](\A c \in ConnIds :
          cpc[c] = "promoteFailed" =>
            /\ c \notin httpConnections /\ cTracked[c] = 0 /\ nreq[c] = 0
            /\ \A n \in ReqIds : disp[c][n].pc = "none"
            /\ \A r \in {"request", "null", "error"} : ~ENABLED NextRequest(c, r))
  /\ [][\A c \in ConnIds : cpc[c] = "promoteFailed" => cpc'[c] = "promoteFailed"]_vars

\* after two transient accept errors an accept yielded a connection whose
\* promotion failed: the accept loop is at its next accept() with the backoff
\* unset, nothing is tracked
C23_Witness ==
  /\ ~closed
  /\ cpc[1] = "promoteFailed"
  /\ transients = 2
  /\ lpc[1] = "accept"
  /\ acceptBackoffDelay[1] = Undefined /\ consecErrs[1] = 0
  /\ httpConnections = {}

\* C28: on a closed server both tracked sets are empty in every state; when the
\* accept loop resumes on a closed server with a connection that accept had
\* yielded, the step leaves that connection untracked and closed with its
\* request loop over (or never started), and no request is read from a
\* connection whose request loop is over, nor dispatched.
C28_LateConnectionNeverServed ==
  /\ [](closed => (listeners = {} /\ httpConnections = {}))
  /\ [][\A l \in ListenerIds :
          (closed /\ lpc[l] = "accept" /\ acceptConn[l] # 0 /\ acceptConn'[l] = 0)
            => LET c == acceptConn[l] IN
               /\ cpc[c] = "new"
               /\ cpc'[c] \in {"ended", "promoteFailed"}
               /\ cpc'[c] = "ended" =>
                    (cTracked'[c] = 1 /\ cCloseCalls'[c] = cCloseCalls[c] + 1)
               /\ ~cOpen'[c]
               /\ httpConnections' = {}
               /\ nreq'[c] = 0
               /\ \A n \in ReqIds : disp'[c][n].pc = "none"
               /\ lpc'[l] = "exitOk"]_vars
  /\ [][\A c \in ConnIds :
          cpc[c] \in {"ended", "promoteFailed"}
            => /\ nreq'[c] = nreq[c]
               /\ \A n \in ReqIds : disp[c][n].pc = "none" => disp'[c][n].pc = "none"
               /\ ~cOpen'[c]]_vars

\* the only connection accept ever yielded was tracked, untracked and closed by
\* the step in which its accept loop resumed after close(): that loop has just
\* left (it met no accept error), close() had found no connection, and no
\* request was read
C28_Witness ==
  /\ closed
  /\ accepted = 1
  /\ atCloseC = {}
  /\ cpc[1] = "ended" /\ cTracked[1] = 1 /\ cCloseCalls[1] = 1
  /\ nreq[1] = 0
  /\ lpc[cOwner[1]] = "exitOk"
  /\ consecErrs[cOwner[1]] = 0 /\ acceptBackoffDelay[cOwner[1]] = Undefined
  /\ cOwner[1] \in atCloseL
  /\ httpConnections = {}

\* C29: the two steps of a fatal accept error (the throw of the accept loop,
\* the finally of serve()) change nothing but that serve() call and its
\* listener: the server stays open, the tracked connections (those of that
\* listener too), the request loops and the other accept loops are as they
\* were; a connection of that listener can still be read; a serve() call made
\* on the open server afterwards starts its accept loop.
C29_FatalAcceptEndsOnlyItsCall ==
  /\ [][\A l \in ListenerIds :
          (\/ lpc[l] = "accept" /\ lpc'[l] = "exitErr"
           \/ lpc[l] = "exitErr" /\ lpc'[l] = "rejectedFatal")
          => /\ UNCHANGED <<closed, httpConnections, cpc, cOpen, cCloseCalls,
                            nreq, disp>>
             /\ listeners' \in {listeners, listeners \ {l}}
             /\ \A l2 \in ListenerIds \ {l} :
                  /\ lpc'[l2] = lpc[l2] /\ lOpen'[l2] = lOpen[l2]
                  /\ acceptConn'[l2] = acceptConn[l2]]_vars
  /\ [](\A c \in ConnIds :
          (~closed /\ cOwner[c] # 0 /\ lpc[cOwner[c]] = "rejectedFatal"
             /\ cpc[c] = "next" /\ cOpen[c] /\ nreq[c] < MaxReq
             /\ TotalReq < budget.reqs)
          => ENABLED NextRequest(c, "request"))
  /\ [][\A l \in ListenerIds :
          (~closed /\ lpc[l] = "created" /\ lpc'[l] # "created")
            => (lpc'[l] = "accept" /\ l \in listeners')]_vars

\* on the open server the first serve() call was rejected with a fatal accept
\* error; the connection accepted from its listener is tracked and open, a
\* request of it is with the handler, and the accept loop of a serve() call
\* made with a listener of the caller is running
C29_Witness ==
  /\ ~closed
  /\ lpc[1] = "rejectedFatal"
  /\ cOwner[1] = 1 /\ 1 \in httpConnections /\ cOpen[1] /\ cpc[1] = "next"
  /\ disp[1][1].pc = "handler"
  /\ lpc[2] = "accept" /\ lCloseCalls[2] = 0 /\ listeners = {2}

\* C21: serve and serveTls emit the 'Listening on ...' message on successful
\* bind and only then: after a call whose listener could not be created,
\* nothing was emitted.
C21_MessageOnlyAfterSuccessfulBind ==
  top.fn \in {"serve", "serveTls"} /\ lpc[1] = "rejectedBind" => top.log = <<>>

\* C22: serveTls without a key file or without a certificate file fails with
\* the configuration error of the missing entry, and at no later time has a
\* server been constructed, an abort listener been added, a listener been
\* opened or tracked, or a message or an onListen call been made.
C22_MissingTlsConfigFailsFirst ==
  top.fn = "serveTls" /\ ~(options.keyFile /\ options.certFile) =>
    /\ top.pc = IF ~options.keyFile THEN "keyFileMissing" ELSE "certFileMissing"
    /\ ~top.server
    /\ signal = "none"
    /\ lpc[1] = "new"
    /\ ~lOpen[1]
    /\ listeners = {}
    /\ top.log = <<>>
    /\ top.onListenArgs = <<>>

\* serveTls was called with a key file, without a certificate file, with a
\* signal to listen to and a message to emit.
C22_Witness ==
  /\ top.fn = "serveTls"
  /\ top.pc = "certFileMissing"
  /\ options.keyFile
  /\ options.signal = "fresh"
  /\ options.onListen = "absent"

\* C30: when the signal given to a top-level function has already aborted,
\* close() is never called: the abort listener cannot run, the server is never
\* closed, and no serve call ends as it does on a closed server.
C30_AbortedSignalNeverCloses ==
  options.signal = "aborted" =>
    /\ closeCalls = 0
    /\ ~closed
    /\ signal \in {"none", "aborted"}
    /\ ~ENABLED Abort
    /\ lpc[1] \notin {"exitOk", "returned", "rejectedClosed"}

\* serve was called with an aborted signal, bound, and its server has served a
\* request of a connection to the end and accepts again.
C30_Witness ==
  /\ options.signal = "aborted"
  /\ top.fn = "serve"
  /\ signal = "aborted"
  /\ lpc[1] = "accept"
  /\ cpc[1] = "ended"
  /\ nreq[1] = 1
  /\ disp[1][1].pc = "done"

\* C26: the promise deadline(p, delay) returns settles once; it rejects with
\* DeadlineError when the timer fired before p settled and takes p's own
\* outcome otherwise; from then on the timer is cleared or has fired, cannot
\* fire any more, and d was rejected only if the deadline won.  Once p has
\* settled or the timer has fired, the returned promise does settle.
C26_DeadlineOrOutcomeOfP ==
  /\ [](/\ dl.settles <= 1
        /\ dl.result # Pending =>
             /\ dl.settles = 1
             /\ dl.result = IF dl.first = "timer"
                            THEN Rejected("DeadlineError") ELSE dl.outcome
             /\ dl.t = IF dl.first = "timer" THEN "fired" ELSE "cleared"
             /\ ~ENABLED TimerFires
             /\ dl.first = "p" => dl.d = Pending)
  /\ (dl.pc = "called" /\ dl.first # "none") ~> (dl.result # Pending)

\* The delay was not zero and elapsed first: the result is the DeadlineError,
\* and p has settled since, with its own outcome.
C26_Witness ==
  /\ dl.delay > 0
  /\ dl.first = "timer"
  /\ dl.result = Rejected("DeadlineError")
  /\ dl.p = dl.outcome
  /\ dl.jobs = <<>>

\* The arguments fn has been invoked with.
InvokedArgs == {db.invoked[i].arg : i \in DOMAIN db.invoked}

\* Every call so far came before the wait of the call before it had expired.
Burst == \A k \in 1..(db.calls - 1) : db.callAt[k + 1] < db.callAt[k] + db.wait

\* C25: a call followed by another one before its wait has expired never has
\* its arguments passed to fn; no call has its arguments passed twice; a timer
\* passes the arguments of a call only when its wait has elapsed and it is
\* still the last call; so after a burst of calls fn has been invoked at most
\* once, with the arguments of the last call, and it is invoked in the end
\* unless another call or clear() comes first.  (Calls that debounced.flush()
\* has run at once are set apart.)
C25_BurstInvokesLastCallOnce ==
  /\ [](/\ \A k \in 1..(db.calls - 1) :
             db.callAt[k + 1] < db.callAt[k] + db.wait /\ k \notin db.flushed
               => k \notin InvokedArgs
        /\ \A i, j \in DOMAIN db.invoked :
             db.invoked[i].arg = db.invoked[j].arg => i = j
        /\ \A i \in DOMAIN db.invoked :
             db.invoked[i].arg \notin db.flushed =>
               /\ db.invoked[i].at >= db.callAt[db.invoked[i].arg] + db.wait
               /\ db.invoked[i].calls = db.invoked[i].arg
        /\ Burst /\ db.flushed = {} =>
             /\ Len(db.invoked) <= 1
             /\ db.invoked # <<>> => db.invoked[1].arg = db.calls)
  /\ \A k \in CallIds :
       (db.calls = k /\ db.timeout = k)
         ~> (db.calls > k \/ k \in InvokedArgs \/ k \in db.cleared)

\* A burst of calls made at different times, no flush() and no clear(): fn
\* was invoked once, with the arguments of the last call.
C25_Witness ==
  /\ db.calls >= 2
  /\ Burst
  /\ db.callAt[db.calls] > db.callAt[1]
  /\ db.flushed = {}
  /\ db.cleared = {}
  /\ Len(db.invoked) = 1
  /\ db.invoked[1].arg = db.calls

\* C25, as stated: a call followed by another one before its wait has expired
\* never has its arguments passed to fn, fn is invoked only after the wait of
\* the call whose arguments it gets, and after a burst of calls it has been
\* invoked at most once, with the arguments of the last call.
C25_EveryBurstInvokesOnceAfterWait ==
  /\ \A k \in 1..(db.calls - 1) :
       db.callAt[k + 1] < db.callAt[k] + db.wait => k \notin InvokedArgs
  /\ \A i \in DOMAIN db.invoked :
       db.invoked[i].at >= db.callAt[db.invoked[i].arg] + db.wait
  /\ Burst =>
       /\ Len(db.invoked) <= 1
       /\ db.invoked # <<>> => db.invoked[1].arg = db.calls

IsPrefix(s, t) == Len(s) <= Len(t) /\ \A i \in 1..Len(s) : s[i] = t[i]

\* C24: at every time what a branch of tee has yielded is a prefix of the
\* source, a branch that has ended has yielded the whole source, and when the
\* consumers keep pulling every branch ends, whatever the interleaving.
C24_EveryBranchYieldsTheSource ==
  /\ [](\A b \in 1..tee.n :
          /\ IsPrefix(tee.branches[b].out, tee.src)
          /\ tee.branches[b].pc = "ended" => tee.branches[b].out = tee.src)
  /\ <>(\A b \in 1..tee.n :
          tee.branches[b].pc = "ended" /\ tee.branches[b].out = tee.src)

\* Two branches of a source of two values have ended; they pulled at the same
\* time while the buffer was empty (the source was called more often than one
\* branch alone calls it).
C24_Witness ==
  /\ tee.n = 2
  /\ tee.src = <<"a", "b">>
  /\ \A b \in 1..2 :
       tee.branches[b].pc = "ended" /\ tee.branches[b].out = tee.src
  /\ tee.srcCalls > 3

Range(seq) == {seq[i] : i \in DOMAIN seq}

\* No source ends by throwing.
NoSourceThrows == \A s \in SourceIds : mux.end[s] = "return"

\* The values the sources have yielded so far, and those in the list.
Produced ==
  {v \in SourceIds \X (1..MaxMuxLen) :
     v[2] <= mux.pos[v[1]] /\ v[2] <= mux.len[v[1]]}
Queued == {mux.yields[i].value : i \in DOMAIN mux.yields}

\* C27: when no source throws, no value is delivered twice, only values that
\* a source has yielded are delivered (never what it returns), every value a
\* source has yielded has been delivered or is still in the list, once every
\* added source is done all their values have been delivered, and a value in
\* the list of a mux that is being iterated is delivered in the end.
C27_EveryValueDeliveredOnce ==
  /\ [](NoSourceThrows =>
          /\ \A i, j \in DOMAIN mux.delivered :
               mux.delivered[i] = mux.delivered[j] => i = j
          /\ Range(mux.delivered) \subseteq Produced
          /\ \A s \in SourceIds : SrcReturn(s) \notin Range(mux.delivered)
          /\ Produced \subseteq Range(mux.delivered) \cup Queued
          /\ (\A s \in SourceIds : mux.added[s] => mux.pos[s] = mux.len[s] + 1)
               => Range(mux.delivered) =
                    {v \in SourceIds \X (1..MaxMuxLen) :
                       mux.added[v[1]] /\ v[2] <= mux.len[v[1]]})
  /\ \A s \in SourceIds, k \in 1..MaxMuxLen :
       (/\ NoSourceThrows
        /\ SrcValue(s, k) \in Queued
        /\ mux.it \notin {"none", "done"})
         ~> (SrcValue(s, k) \in Range(mux.delivered))

\* Two sources of two values each are done and the consumer has ended; the
\* four values were delivered, the first two from different sources.
C27_Witness ==
  /\ NoSourceThrows
  /\ \A s \in SourceIds :
       mux.added[s] /\ mux.len[s] = 2 /\ mux.pos[s] = 3
  /\ mux.it = "done"
  /\ Len(mux.delivered) = 4
  /\ mux.delivered[1][1] # mux.delivered[2][1]


\* The indices of the list whose value has not been handed to the consumer.
Undelivered ==
  {i \in DOMAIN mux.yields : mux.yields[i].value \notin Range(mux.delivered)}

\* C31: at every time a source of a MuxAsyncIterator has at most one call of
\* next() outstanding and at most one value in the list that was not handed
\* to the consumer, and never both: its next value is asked for only after
\* the value before was handed over; the values of one source are delivered
\* in the order of the source.
C31_OneOutstandingPerSource ==
  /\ \A s \in SourceIds :
       /\ mux.inflight[s] <= 1
       /\ mux.inflight[s]
            + Cardinality({i \in Undelivered : mux.yields[i].iterator = s}) <= 1
  /\ \A i, j \in DOMAIN mux.delivered :
       i < j /\ mux.delivered[i][1] = mux.delivered[j][1]
         => mux.delivered[i][2] < mux.delivered[j][2]

\* The list holds two values of one source within one batch: the first was
\* delivered and the source asked again while the for loop was at the value
\* of the other source, and the generator is at the yield of the second.
C31_Witness ==
  /\ mux.it = "yield"
  /\ mux.i = 3
  /\ Len(mux.yields) = 3
  /\ mux.yields[1].iterator = mux.yields[3].iterator
  /\ mux.yields[2].iterator # mux.yields[1].iterator
  /\ Len(mux.delivered) >= 3


\* Source s has reported done: its call of next() past its last value was
\* answered, and it ends by returning.
ReportedDone(s) == mux.end[s] = "return" /\ mux.pos[s] = mux.len[s] + 1

\* C32: iteratorCount is the number of added sources that have not reported
\* done.  When no source throws: the generator never waits for a pending
\* signal while a value is in the list or while iteratorCount is zero; it
\* ends only when every added source has reported done and the list is
\* empty, every value of these sources delivered; and an iteration that was
\* started ends.
C32_IterationEndsWhenSourcesDone ==
  /\ [](mux.pc = "ready" =>
          mux.iteratorCount =
            Cardinality({s \in SourceIds : mux.added[s] /\ ~ReportedDone(s)}))
  /\ [](NoSourceThrows /\ mux.pc = "ready" /\ mux.it = "awaitSignal"
          /\ (mux.yields # <<>> \/ mux.iteratorCount = 0)
          => mux.signal = "resolved")
  /\ [][NoSourceThrows /\ mux.pc = "ready" /\ mux.it # "done" /\ mux'.it = "done"
          => /\ \A s \in SourceIds : mux'.added[s] => ReportedDone(s)'
             /\ mux'.yields = <<>>
             /\ Range(mux'.delivered) =
                  {v \in SourceIds \X (1..MaxMuxLen) :
                     mux'.added[v[1]] /\ v[2] <= mux'.len[v[1]]}]_vars
  /\ (NoSourceThrows /\ mux.pc = "ready" /\ mux.it # "none") ~> (mux.it = "done")

\* The iteration has ended after a source of one value and a source of two
\* values; the last source reported done while the generator was waiting for
\* the signal, which was reset before.
C32_Witness ==
  /\ NoSourceThrows
  /\ mux.it = "done"
  /\ mux.len = <<1, 2>>
  /\ \A s \in SourceIds : mux.added[s] /\ ReportedDone(s)
  /\ Len(mux.delivered) = 3
  /\ mux.delivered[3] = SrcValue(2, 2)
  /\ mux.signal = "pending"


\* C33: the generator of a MuxAsyncIterator throws only an error a source
\* has thrown, the first one recorded, and only when every value in the list
\* has been yielded; after the throw it yields no value and throws no other
\* error, whatever the other sources do; and when a source has thrown during
\* an iteration, the generator throws in the end.
C33_FirstErrorRethrownAfterBatch ==
  /\ [](mux.pc = "ready" =>
          /\ mux.error # <<>> <=> mux.it = "thrown"
          /\ mux.it = "thrown" =>
               mux.throws # <<>> /\ mux.error = <<mux.throws[1]>>)
  /\ [][mux.pc = "ready" /\ mux.it # "thrown" /\ mux'.it = "thrown"
          => /\ Range(mux'.delivered) \cap Queued' = Queued'
             /\ mux'.delivered = mux.delivered]_vars
  /\ [][mux.pc = "ready" /\ mux.it = "thrown"
          => /\ mux'.it = "thrown"
             /\ mux'.error = mux.error
             /\ mux'.delivered = mux.delivered]_vars
  /\ (mux.pc = "ready" /\ mux.throws # <<>> /\ mux.it \notin {"none", "done"})
       ~> (mux.it = "thrown")

\* The generator has thrown the error of one source after it had yielded a
\* value; the other source was live and has queued a value since, which is
\* not delivered.
C33_Witness ==
  /\ mux.it = "thrown"
  /\ mux.delivered # <<>>
  /\ \E s \in SourceIds :
       /\ mux.error = <<SrcError(s)>>
       /\ \E i \in Undelivered : mux.yields[i].iterator # s


\* The call found the signal aborted: no waiter was made.
AbortedAtCall == ab.pc = "called" /\ ab.waiter.state = "none"

\* C34: for a promise p, abortable returns a promise already rejected with
\* AbortError, no listener registered, when the signal is aborted at the
\* call; otherwise the promise it returns settles with the outcome of p when
\* p had settled before the signal aborted (or the signal never aborted),
\* and with AbortError when the signal aborted before p settled; and once p
\* has settled and its promise jobs have run the listener is not registered.
C34_OutcomeOfPUnlessAbortedFirst ==
  ab.kind = "promise" /\ ab.pc = "called" =>
    /\ AbortedAtCall =>
         ab.result = Rejected(AbortError) /\ ab.adds = 0 /\ ~ab.listener
    /\ ~AbortedAtCall /\ ab.result # Pending =>
         ab.result = IF ab.atAbort # <<>> /\ ab.atAbort[1].p = Pending
                     THEN Rejected(AbortError) ELSE ab.outcome
    /\ ab.p # Pending /\ ab.jobs = <<>> => ~ab.listener


\* C35: the generator of abortable for an iterable yields a prefix of the
\* source and throws nothing but AbortError, after an abort.  When the signal
\* is aborted at the first pull that pull throws, nothing is registered and
\* the source is never asked.  After an abort only a value the source had
\* answered before is still yielded, the source is asked at most once more,
\* and a pull made after the abort ends with the throw of AbortError.  A
\* generator that has returned has yielded the whole source and the listener
\* is removed.  With a consumer that keeps pulling the generator ends, by
\* the throw or by the end of the source.
C35_SourceOrderUntilDoneOrAbort ==
  /\ [](ab.kind = "iterable" /\ ab.pc = "called" =>
          /\ IsPrefix(ab.out, ab.src)
          /\ ab.gen = "thrown" => ab.error = <<AbortError>> /\ ab.aborted
          /\ ab.gen \notin {"none", "start"} /\ ab.waiter.state = "none" =>
               /\ ab.gen = "thrown"
               /\ ab.srcCalls = 0
               /\ ab.adds = 0
          /\ ab.atAbort # <<>> =>
               /\ Len(ab.out) <= ab.atAbort[1].settled
               /\ Len(ab.out) <= ab.atAbort[1].out + 1
               /\ ab.srcCalls <= ab.atAbort[1].calls + 1
               /\ ab.srcCalls > ab.atAbort[1].calls =>
                    ab.gen \in {"awaiting", "thrown"}
          /\ ab.gen = "done" =>
               ab.out = ab.src /\ ~ab.listener /\ ab.removes = 1)
  /\ (ab.kind = "iterable" /\ ab.gen # "none") ~> (ab.gen \in {"done", "thrown"})

\* The signal aborted after the source had answered and before the generator
\* went on: the value was yielded after the abort, and the pull after it
\* threw AbortError.
C35_Witness ==
  /\ ab.kind = "iterable"
  /\ ab.gen = "thrown"
  /\ ab.atAbort # <<>>
  /\ Len(ab.out) = ab.atAbort[1].out + 1
  /\ ab.srcCalls = ab.atAbort[1].calls + 1
  /\ Len(ab.src) = 2

\* C35, as stated: the generator yields a prefix of the source; with a
\* signal aborted at the first pull it throws and the source is never asked;
\* once the signal has aborted no further value is yielded and the generator
\* does not end but by the throw of AbortError; a generator that has returned
\* has yielded the whole source and the listener is removed.
C35_NoValueOnceAborted ==
  ab.kind = "iterable" /\ ab.pc = "called" =>
    /\ IsPrefix(ab.out, ab.src)
    /\ ab.gen \notin {"none", "start"} /\ ab.waiter.state = "none" =>
         ab.gen = "thrown" /\ ab.srcCalls = 0
    /\ ab.atAbort # <<>> => Len(ab.out) = ab.atAbort[1].out
    /\ ab.gen = "done" => ab.out = ab.src /\ ~ab.listener


\* C36: the nodes of the shared buffer are the values the source has
\* answered, in the order of the source, whatever calls were outstanding at
\* the same time, and what a branch has yielded are the nodes up to its own
\* position; a branch that finds a node after its position yields it without
\* asking the source; and a branch whose consumer keeps pulling ends, with
\* the whole source yielded, whether the other branches are pulled or not.
C36_BranchesIndependent ==
  /\ [](tee.pc = "ready" =>
          /\ tee.nodes = SubSeq(tee.src, 1, Min(tee.srcSettled, Len(tee.src)))
          /\ tee.done <=> tee.srcSettled > Len(tee.src)
          /\ \A b \in 1..tee.n :
               tee.branches[b].out = SubSeq(tee.nodes, 1, tee.branches[b].buffer))
  /\ [][tee.pc = "ready" =>
          \A b \in 1..tee.n :
            tee.branches[b].buffer < Len(tee.nodes) /\ tee'.branches[b] # tee.branches[b]
              => /\ tee'.srcCalls = tee.srcCalls
                 /\ tee'.nodes = tee.nodes
                 /\ tee'.branches[b].out =
                      Append(tee.branches[b].out, tee.nodes[tee.branches[b].buffer + 1])]_vars
  /\ \A b \in BranchIds :
       WF_vars(TeePull(b)) /\ WF_vars(TeeResume(b))
         => <>(tee.pc = "ready" /\ b <= tee.n =>
                 tee.branches[b].pc = "ended" /\ tee.branches[b].out = tee.src)

\* One branch has yielded the two values of the source and has ended; the
\* other branch was never pulled.
C36_Witness ==
  /\ tee.pc = "ready"
  /\ tee.n = 2
  /\ Len(tee.src) = 2
  /\ \E b \in 1..2 :
       /\ tee.branches[b].pc = "ended"
       /\ tee.branches[b].out = tee.src
       /\ tee.branches[3 - b].pc = "suspended"
       /\ tee.branches[3 - b].out = <<>>
       /\ tee.branches[3 - b].buffer = 0
       /\ tee.branches[3 - b].call = 0

====
